---- MODULE Spec2Model ----
(***************************************************************************)
(* EPaxos replica (Brian-1402/EPaxos_reactor).                             *)
(*                                                                         *)
(* Each replica is a Processor: a single-threaded, message-driven actor    *)
(* whose handlers run to completion.  The model keeps one Processor record *)
(* per replica and a set of messages in flight.  Every handler is a pure   *)
(* operator from (Processor, message) to (Processor', outputs), translated *)
(* from the source; an action delivers one message: it applies the handler *)
(* and routes the outputs.  The repository holds the protocol twice: the   *)
(* handlers of handlers.rs with helpers.rs (Handler), and the process      *)
(* method of mod.rs (process), the only one that calls the execution       *)
(* engine.  Both are modelled, each with its own specifications.           *)
(***************************************************************************)
EXTENDS Integers, Sequences, FiniteSets, TLC

VARIABLES
    proc,   \* proc[r]: the Processor of replica r
    net,    \* messages in flight: [to, from, msg]
    sent,   \* history: how many times each output was emitted, by emitter
    delivered, \* history: the replies (PreAcceptOk, AcceptOk) handled so far
    quota,  \* quota[c]: how many requests client c issues at most
    issued, \* issued[c]: requests client c has issued so far
    ndup,   \* duplicate deliveries made so far
    steps   \* handler runs so far (counted only by the step-bounded specifications)

vars == <<proc, net, sent, delivered, quota, issued, ndup, steps>>

\* ------------------------------------------------------------------ bounds
MaxReqs == 1    \* requests per client
MaxSeqReqs == 2 \* requests of the only client of SpecWriter
MaxDups == 1    \* duplicate deliveries per run
MaxSteps == 9   \* handler runs per run of Spec5
MaxProcSteps == 12 \* handler runs per run of SpecThree

\* the largest seq of a committed entry drawn for SpecEngine
MaxSeq == 3

\* SpecInsert: the number of calls of cmds_insert and the largest index used
MaxInserts == 3

MaxSlot == 1

\* SpecSizes: the largest ensemble and the number of handler runs
MaxN == 7

MaxSizeSteps == 7

\* the workload: each client talks to one replica (lib.rs: "server" payload)
Clients == {"c0", "c1", "c2"}

ServerOf(c) == IF c = "c0" THEN "r0" ELSE IF c = "c1" THEN "r1" ELSE "r2"

KeysOf(c) == IF c = "c1" THEN {"a", "b"} ELSE {"a"}

\* ------------------------------------------------------------- data model
None == <<>>
Some(x) == <<x>>

Max(a, b) == IF a >= b THEN a ELSE b

SetMax(S) == IF S = {} THEN 0 ELSE CHOOSE x \in S : \A y \in S : y <= x

Instance(r, n) == [replica |-> r, instance_num |-> n]

CmdSet(k, v) == [op |-> "Set", key |-> k, val |-> v]

CmdGet(k) == [op |-> "Get", key |-> k]

conflicts_with(c1, c2) == c1.key = c2.key

CmdEntry(cmd, seq, deps, status) ==
    [cmd |-> cmd, seq |-> seq, deps |-> deps, status |-> status]

\* Processor::new; debug_assertions is the build profile
NewProcessor(replica_list, replica_name, debug_assertions) ==
    [ debug_assertions |-> debug_assertions,
      data           |-> [k \in {} |-> 0],
      cmds           |-> [r \in { replica_list[i] : i \in 1..Len(replica_list) } |-> <<>>],
      instance_num   |-> 0,
      quorum_ctr     |-> <<>>,
      acc_quorum_ctr |-> <<>>,
      app_meta       |-> <<>>,
      replica_list   |-> replica_list,
      replica_name   |-> replica_name,
      pending_reads  |-> {},
      panicked       |-> FALSE,
      history        |-> <<>> ]

Ret(p, out) == [p |-> p, out |-> out]

\* a panic (unwrap / expect / panic!) ends the actor: nothing is emitted
Panic(p) == [p |-> [p EXCEPT !.panicked = TRUE], out |-> <<>>]

\* ---------------------------------------------------------------- helpers
\* mutant of get_majority: the majority is taken over the peers
get_majority_of_peers(p) == Max(1, (Len(p.replica_list) - 1) \div 2)

get_majority(p) ==
    LET res == Len(p.replica_list) \div 2
    IN  IF res < 1 THEN 1 ELSE res

\* mutant of fast_quorum: every peer is asked for (the count of mod.rs)
fast_quorum_all_peers(p) == Len(p.replica_list) - 1

fast_quorum(p) ==
    LET res == Len(p.replica_list) - 2
    IN  IF res < 1 THEN 1 ELSE res

resize_cmds(cmds, new_size, replica) ==
    LET cur == Len(cmds[replica])
    IN  IF new_size > cur
        THEN [cmds EXCEPT ![replica] = @ \o [i \in 1..(new_size - cur) |-> None]]
        ELSE cmds

lookup(p, instance) ==
    IF /\ instance.replica \in DOMAIN p.cmds
       /\ instance.instance_num + 1 <= Len(p.cmds[instance.replica])
    THEN p.cmds[instance.replica][instance.instance_num + 1]
    ELSE None

\* mutant of cmds_insert: the slot is written whatever it holds
cmds_insert_always_stores(p, instance, cmd_entry) ==
    LET index == instance.instance_num + 1
        cmds1 == resize_cmds(p.cmds, index, instance.replica)
    IN  [p EXCEPT !.cmds = [cmds1 EXCEPT ![instance.replica][index] = Some(cmd_entry)]]

cmds_insert(p, instance, cmd_entry) ==
    LET index    == instance.instance_num + 1
        cmds1    == resize_cmds(p.cmds, index, instance.replica)
        position == cmds1[instance.replica][index]
        stored   == [p EXCEPT !.cmds = [cmds1 EXCEPT ![instance.replica][index] = Some(cmd_entry)]]
    IN  IF position = None THEN stored
        ELSE IF position[1].cmd = cmd_entry.cmd THEN stored
        ELSE IF p.debug_assertions THEN [p EXCEPT !.cmds = cmds1, !.panicked = TRUE]
        ELSE [p EXCEPT !.cmds = cmds1]

AllSlots(p) ==
    UNION { { Instance(r, i - 1) : i \in 1..Len(p.cmds[r]) } : r \in DOMAIN p.cmds }

\* the deps part of get_interfs
interf_deps(p, cmd) ==
    { I \in AllSlots(p) :
        LET c == lookup(p, I)
        IN  /\ c # None
            /\ c[1].cmd.op # "Get"
            /\ c[1].status # "Executed"
            /\ ~(cmd.op = "Get" /\ c[1].cmd.op = "Get")
            /\ conflicts_with(c[1].cmd, cmd) }

\* mutant of get_interfs: max_seq is updated for every entry the loop keeps,
\* on the key of cmd or not
get_interfs_seq_of_all(p, cmd) ==
    LET deps    == interf_deps(p, cmd)
        kept    == { I \in AllSlots(p) :
                       /\ lookup(p, I) # None
                       /\ lookup(p, I)[1].cmd.op # "Get"
                       /\ lookup(p, I)[1].status # "Executed" }
        max_seq == SetMax({ lookup(p, I)[1].seq : I \in kept })
    IN  [deps |-> deps, seq |-> max_seq + 1]

get_interfs(p, cmd) ==
    LET deps    == interf_deps(p, cmd)
        max_seq == SetMax({ lookup(p, I)[1].seq : I \in deps })
    IN  [deps |-> deps, seq |-> max_seq + 1]

\* --------------------------------------------------------------- messages
PreAcceptMsg(cmd, seq, deps, instance) ==
    [type |-> "PreAccept", cmd |-> cmd, seq |-> seq, deps |-> deps, instance |-> instance]

PreAcceptOkMsg(seq, deps, instance) ==
    [type |-> "PreAcceptOk", seq |-> seq, deps |-> deps, instance |-> instance]

AcceptMsg(cmd, seq, deps, instance) ==
    [type |-> "Accept", cmd |-> cmd, seq |-> seq, deps |-> deps, instance |-> instance]

AcceptOkMsg(instance) == [type |-> "AcceptOk", instance |-> instance]

CommitMsg(cmd, seq, deps, instance) ==
    [type |-> "Commit", cmd |-> cmd, seq |-> seq, deps |-> deps, instance |-> instance]

ClientResponse(msg_id, client_id, cmd_result) ==
    [type |-> "ClientResponse", msg_id |-> msg_id, client_id |-> client_id,
     cmd_result |-> cmd_result]

\* --------------------------------------------------------------- handlers
\* mutant of client_request_handler: instance_num is not incremented
client_request_handler_reuses_slot(p, msg) ==
    IF msg.cmd.op = "Set"
    THEN LET vec_size == Len(p.cmds[p.replica_name])
             inum     == p.instance_num
             i        == get_interfs(p, msg.cmd)
             entry    == CmdEntry(msg.cmd, i.seq, i.deps, "PreAccepted")
             instance == Instance(p.replica_name, inum)
             p1 == [p EXCEPT !.instance_num = inum,
                             !.quorum_ctr = Append(@, 0),
                             !.acc_quorum_ctr = Append(@, 0),
                             !.cmds[p.replica_name] = Append(@, Some(entry)),
                             !.app_meta = Append(@, [client_id |-> msg.client_id,
                                                     msg_id |-> msg.msg_id])]
         IN  Ret(p1, <<PreAcceptMsg(msg.cmd, i.seq, i.deps, instance)>>)
    ELSE Ret(p, <<>>)

client_request_handler(p, msg) ==
    IF msg.cmd.op = "Set"
    THEN LET vec_size == Len(p.cmds[p.replica_name])
             inum     == IF vec_size > 0 THEN p.instance_num + 1 ELSE p.instance_num
             i        == get_interfs(p, msg.cmd)
             entry    == CmdEntry(msg.cmd, i.seq, i.deps, "PreAccepted")
             instance == Instance(p.replica_name, inum)
             p1 == [p EXCEPT !.instance_num = inum,
                             !.quorum_ctr = Append(@, 0),
                             !.acc_quorum_ctr = Append(@, 0),
                             !.cmds[p.replica_name] = Append(@, Some(entry)),
                             !.app_meta = Append(@, [client_id |-> msg.client_id,
                                                     msg_id |-> msg.msg_id])]
         IN  Ret(p1, <<PreAcceptMsg(msg.cmd, i.seq, i.deps, instance)>>)
    ELSE Ret(p, <<>>)

pre_accept_handler(p, msg) ==
    LET i           == get_interfs(p, msg.cmd)
        interf_d    == i.deps \cup msg.deps
        interf_seq  == Max(i.seq, msg.seq)
        entry       == CmdEntry(msg.cmd, interf_seq, interf_d, "PreAccepted")
        p1          == cmds_insert(p, msg.instance, entry)
    IN  IF p1.panicked THEN Panic(p1)
        ELSE Ret(p1, <<PreAcceptOkMsg(interf_seq, interf_d, msg.instance)>>)

\* mutant of widen: the divergent reply is merged but the status is left alone
widen_keeps_status(e, msg) ==
    IF e.seq # msg.seq \/ e.deps # msg.deps
    THEN [e EXCEPT !.seq = Max(@, msg.seq), !.deps = @ \cup msg.deps]
    ELSE e

\* pre_accept_ok_handler, "Check if seq and deps match"
widen(e, msg) ==
    IF e.seq # msg.seq \/ e.deps # msg.deps
    THEN [e EXCEPT !.seq = Max(@, msg.seq),
                   !.deps = @ \cup msg.deps,
                   !.status = "Accepted"]
    ELSE e

\* mutant of pre_accept_ok_handler: no "Check if already committed"
pre_accept_ok_handler_counts_late(p, msg) ==
    LET replica  == msg.instance.replica
        idx      == msg.instance.instance_num + 1
        majority == get_majority(p)
        fq       == fast_quorum(p)
    IN  IF replica # p.replica_name THEN Ret(p, <<>>)
        ELSE IF lookup(p, msg.instance) = None THEN Panic(p)
        ELSE
        LET e == lookup(p, msg.instance)[1]
        IN  IF e.status = "Accepted" /\ p.quorum_ctr[idx] >= majority THEN Ret(p, <<>>)
            ELSE
            LET e1  == widen(e, msg)
                ctr == p.quorum_ctr[idx] + 1
                p1  == [p EXCEPT !.quorum_ctr[idx] = ctr,
                                 !.cmds[replica][idx] = Some(e1)]
                e2  == [e1 EXCEPT !.status = "Committed"]
                p2  == [p1 EXCEPT !.cmds[replica][idx] = Some(e2)]
                commit_msg == CommitMsg(e2.cmd, e2.seq, e2.deps, msg.instance)
                meta == p.app_meta[idx]
            IN  IF ctr = majority /\ e1.status = "Accepted"
                THEN Ret(p1, <<AcceptMsg(e1.cmd, e1.seq, e1.deps, msg.instance)>>)
                ELSE IF ctr = majority /\ majority # fq THEN Ret(p1, <<>>)
                ELSE IF ctr = fq /\ e1.status = "PreAccepted"
                THEN IF e2.cmd.op = "Set"
                     THEN Ret(p2, <<commit_msg,
                                    ClientResponse(meta.msg_id, meta.client_id,
                                        [op |-> "Set", key |-> e2.cmd.key, status |-> TRUE])>>)
                     ELSE Ret(p2, <<commit_msg>>)
                ELSE Ret(p1, <<>>)

\* mutant of pre_accept_ok_handler: no check that the receiver leads the instance
pre_accept_ok_handler_any_receiver(p, msg) ==
    LET replica  == msg.instance.replica
        idx      == msg.instance.instance_num + 1
        majority == get_majority(p)
        fq       == fast_quorum(p)
    IN  IF lookup(p, msg.instance) = None \/ idx > Len(p.quorum_ctr) THEN Panic(p)
        ELSE
        LET e == lookup(p, msg.instance)[1]
        IN  IF e.status = "Committed" THEN Ret(p, <<>>)
            ELSE IF e.status = "Accepted" /\ p.quorum_ctr[idx] >= majority THEN Ret(p, <<>>)
            ELSE
            LET e1  == widen(e, msg)
                ctr == p.quorum_ctr[idx] + 1
                p1  == [p EXCEPT !.quorum_ctr[idx] = ctr,
                                 !.cmds[replica][idx] = Some(e1)]
                e2  == [e1 EXCEPT !.status = "Committed"]
                p2  == [p1 EXCEPT !.cmds[replica][idx] = Some(e2)]
                commit_msg == CommitMsg(e2.cmd, e2.seq, e2.deps, msg.instance)
                meta == p.app_meta[idx]
            IN  IF ctr = majority /\ e1.status = "Accepted"
                THEN Ret(p1, <<AcceptMsg(e1.cmd, e1.seq, e1.deps, msg.instance)>>)
                ELSE IF ctr = majority /\ majority # fq THEN Ret(p1, <<>>)
                ELSE IF ctr = fq /\ e1.status = "PreAccepted"
                THEN IF e2.cmd.op = "Set"
                     THEN Ret(p2, <<commit_msg,
                                    ClientResponse(meta.msg_id, meta.client_id,
                                        [op |-> "Set", key |-> e2.cmd.key, status |-> TRUE])>>)
                     ELSE Ret(p2, <<commit_msg>>)
                ELSE Ret(p1, <<>>)

pre_accept_ok_handler(p, msg) ==
    LET replica  == msg.instance.replica
        idx      == msg.instance.instance_num + 1
        majority == get_majority(p)
        fq       == fast_quorum(p)
    IN  IF replica # p.replica_name THEN Ret(p, <<>>)
        ELSE IF lookup(p, msg.instance) = None THEN Panic(p)
        ELSE
        LET e == lookup(p, msg.instance)[1]
        IN  IF e.status = "Committed" THEN Ret(p, <<>>)
            ELSE IF e.status = "Accepted" /\ p.quorum_ctr[idx] >= majority THEN Ret(p, <<>>)
            ELSE
            LET e1  == widen(e, msg)
                ctr == p.quorum_ctr[idx] + 1
                p1  == [p EXCEPT !.quorum_ctr[idx] = ctr,
                                 !.cmds[replica][idx] = Some(e1)]
                e2  == [e1 EXCEPT !.status = "Committed"]
                p2  == [p1 EXCEPT !.cmds[replica][idx] = Some(e2)]
                commit_msg == CommitMsg(e2.cmd, e2.seq, e2.deps, msg.instance)
                meta == p.app_meta[idx]
            IN  IF ctr = majority /\ e1.status = "Accepted"
                THEN Ret(p1, <<AcceptMsg(e1.cmd, e1.seq, e1.deps, msg.instance)>>)
                ELSE IF ctr = majority /\ majority # fq THEN Ret(p1, <<>>)
                ELSE IF ctr = fq /\ e1.status = "PreAccepted"
                THEN IF e2.cmd.op = "Set"
                     THEN Ret(p2, <<commit_msg,
                                    ClientResponse(meta.msg_id, meta.client_id,
                                        [op |-> "Set", key |-> e2.cmd.key, status |-> TRUE])>>)
                     ELSE Ret(p2, <<commit_msg>>)
                ELSE Ret(p1, <<>>)

commit_handler(p, msg) ==
    LET p1 == cmds_insert(p, msg.instance,
                          CmdEntry(msg.cmd, msg.seq, msg.deps, "Committed"))
    IN  IF p1.panicked THEN Panic(p1) ELSE Ret(p1, <<>>)

accept_handler(p, msg) ==
    LET p1 == cmds_insert(p, msg.instance,
                          CmdEntry(msg.cmd, msg.seq, msg.deps, "Accepted"))
    IN  IF p1.panicked THEN Panic(p1) ELSE Ret(p1, <<AcceptOkMsg(msg.instance)>>)

accept_ok_handler(p, msg) ==
    LET replica  == msg.instance.replica
        idx      == msg.instance.instance_num + 1
        majority == get_majority(p)
    IN  IF replica # p.replica_name THEN Ret(p, <<>>)
        ELSE IF lookup(p, msg.instance) = None THEN Panic(p)
        ELSE
        LET e == lookup(p, msg.instance)[1]
        IN  IF e.status = "Committed" THEN Ret(p, <<>>)
            ELSE
            LET ctr == p.acc_quorum_ctr[idx] + 1
                p1  == [p EXCEPT !.acc_quorum_ctr[idx] = ctr]
                p2  == [p1 EXCEPT !.cmds[replica][idx] = Some([e EXCEPT !.status = "Committed"])]
            IN  IF ctr = majority
                THEN Ret(p2, <<CommitMsg(e.cmd, e.seq, e.deps, msg.instance)>>)
                ELSE Ret(p1, <<>>)

\* ------------------------------------------------------- execution engine
\* The iteration order of a HashSet or HashMap is not specified.  One run of a
\* handler observes one order ord: the replicas in the order ord.reps, the
\* instances of one replica upwards or downwards (ord.up), the members of a
\* HashSet<usize> ascending or descending (ord.asc).
EmptyMap == [x \in {} |-> x]

Min(a, b) == IF a <= b THEN a ELSE b

Pos(s, x) == CHOOSE i \in 1..Len(s) : s[i] = x

Before(ord, x, y) ==
    IF x.replica # y.replica
    THEN Pos(ord.reps, x.replica) < Pos(ord.reps, y.replica)
    ELSE IF ord.up THEN x.instance_num < y.instance_num
         ELSE x.instance_num > y.instance_num

RECURSIVE iter(_, _)
\* the members of a set of instances in iteration order
iter(S, ord) ==
    IF S = {} THEN <<>>
    ELSE LET x == CHOOSE x \in S : \A y \in S \ {x} : Before(ord, x, y)
         IN  <<x>> \o iter(S \ {x}, ord)

RECURSIVE iter_usize(_, _)
\* the members of a set of indices in iteration order
iter_usize(S, ord) ==
    IF S = {} THEN <<>>
    ELSE LET x == CHOOSE x \in S : \A y \in S : IF ord.asc THEN x <= y ELSE x >= y
         IN  <<x>> \o iter_usize(S \ {x}, ord)

RECURSIVE build_dep_graph_loop(_, _, _, _, _)
\* the while loop of build_dep_graph
build_dep_graph_loop(p, ord, stack, visited, graph) ==
    IF stack = <<>> THEN graph
    ELSE LET inst == stack[Len(stack)]
             rest == SubSeq(stack, 1, Len(stack) - 1)
         IN  IF inst \in visited
             THEN build_dep_graph_loop(p, ord, rest, visited, graph)
             ELSE IF lookup(p, inst) = None
             THEN build_dep_graph_loop(p, ord, rest, visited \cup {inst}, graph)
             ELSE LET deps_vec == iter(lookup(p, inst)[1].deps, ord)
                  IN  build_dep_graph_loop(p, ord, rest \o deps_vec, visited \cup {inst},
                                           graph @@ (inst :> deps_vec))

build_dep_graph(p, root, ord) == build_dep_graph_loop(p, ord, <<root>>, {}, EmptyMap)

RECURSIVE strongconnect(_, _, _)
RECURSIVE strongconnect_neighbors(_, _, _, _)
RECURSIVE strongconnect_pop(_, _, _)

RECURSIVE strongconnect_neighbors_tree_edges(_, _, _, _)
\* mutant of strongconnect_neighbors: no "else if on_stack.contains(w)"
strongconnect_neighbors_tree_edges(v, ws, st, graph) ==
    IF ws = <<>> THEN st
    ELSE LET w   == Head(ws)
             st1 == IF w \notin DOMAIN st.indices
                    THEN LET s == strongconnect(w, st, graph)
                         IN  [s EXCEPT !.lowlink[v] = Min(s.lowlink[v], s.lowlink[w])]
                    ELSE st
         IN  strongconnect_neighbors_tree_edges(v, Tail(ws), st1, graph)

\* the "for w in neighbors" loop of strongconnect
strongconnect_neighbors(v, ws, st, graph) ==
    IF ws = <<>> THEN st
    ELSE LET w   == Head(ws)
             st1 == IF w \notin DOMAIN st.indices
                    THEN LET s == strongconnect(w, st, graph)
                         IN  [s EXCEPT !.lowlink[v] = Min(s.lowlink[v], s.lowlink[w])]
                    ELSE IF w \in st.on_stack
                    THEN [st EXCEPT !.lowlink[v] = Min(st.lowlink[v], st.indices[w])]
                    ELSE st
         IN  strongconnect_neighbors(v, Tail(ws), st1, graph)

\* the "loop { stack.pop() ... }" of strongconnect
strongconnect_pop(v, st, scc) ==
    LET w    == st.stack[Len(st.stack)]
        st1  == [st EXCEPT !.stack = SubSeq(@, 1, Len(@) - 1), !.on_stack = @ \ {w}]
        scc1 == Append(scc, w)
    IN  IF w = v THEN [st1 EXCEPT !.result = Append(@, scc1)]
        ELSE strongconnect_pop(v, st1, scc1)

strongconnect(v, st, graph) ==
    LET st0 == [st EXCEPT !.indices  = @ @@ (v :> st.index),
                          !.lowlink  = @ @@ (v :> st.index),
                          !.index    = @ + 1,
                          !.stack    = Append(@, v),
                          !.on_stack = @ \cup {v}]
        st1 == IF v \in DOMAIN graph
               THEN strongconnect_neighbors(v, graph[v], st0, graph)
               ELSE st0
    IN  IF st1.lowlink[v] = st1.indices[v] THEN strongconnect_pop(v, st1, <<>>) ELSE st1

RECURSIVE tarjan_scc_loop(_, _, _)
\* the "for v in graph.keys()" loop of tarjan_scc
tarjan_scc_loop(keys, st, graph) ==
    IF keys = <<>> THEN st.result
    ELSE tarjan_scc_loop(Tail(keys),
                         IF Head(keys) \notin DOMAIN st.indices
                         THEN strongconnect(Head(keys), st, graph)
                         ELSE st,
                         graph)

tarjan_scc(graph, ord) ==
    tarjan_scc_loop(iter(DOMAIN graph, ord),
                    [index |-> 0, stack |-> <<>>, on_stack |-> {}, indices |-> EmptyMap,
                     lowlink |-> EmptyMap, result |-> <<>>],
                    graph)

\* the members of a sequence
Elems(s) == { s[i] : i \in 1..Len(s) }

RECURSIVE kahn_push(_, _)
\* the "for &v in &dag[u]" loop of the Kahn sort: st = [indeg, q]
kahn_push(vs, st) ==
    IF vs = <<>> THEN st
    ELSE LET v   == Head(vs)
             deg == st.indeg[v] - 1
         IN  kahn_push(Tail(vs),
                       [indeg |-> [st.indeg EXCEPT ![v] = deg],
                        q     |-> IF deg = 0 THEN Append(st.q, v) ELSE st.q])

RECURSIVE kahn(_, _, _, _)
\* the "while let Some(u) = q.pop_front()" loop of topo_sort_scc
kahn(st, order, dag, ord) ==
    IF st.q = <<>> THEN order
    ELSE LET u == Head(st.q)
         IN  kahn(kahn_push(iter_usize(dag[u], ord), [st EXCEPT !.q = Tail(@)]),
                  Append(order, u), dag, ord)

\* components are numbered from 1 here, from 0 in the source
topo_sort_scc(sccs, graph, ord) ==
    LET n       == Len(sccs)
        comp_id == [v \in UNION { Elems(sccs[i]) : i \in 1..n } |->
                       CHOOSE i \in 1..n : v \in Elems(sccs[i])]
        dag     == [c \in 1..n |->
                       { comp_id[w] : w \in UNION { Elems(graph[v]) :
                                          v \in { x \in DOMAIN graph : comp_id[x] = c } } }
                       \ {c}]
        indeg   == [v \in 1..n |-> Cardinality({ u \in 1..n : v \in dag[u] })]
        q       == SelectSeq([i \in 1..n |-> i], LAMBDA i : indeg[i] = 0)
        order   == kahn([indeg |-> indeg, q |-> q], <<>>, dag, ord)
    IN  [i \in 1..Len(order) |-> sccs[order[i]]]

mark_executed(p, instance) ==
    IF lookup(p, instance) # None
    THEN [p EXCEPT !.cmds[instance.replica][instance.instance_num + 1][1].status = "Executed"]
    ELSE [p EXCEPT !.panicked = TRUE]

RECURSIVE sort_by_key(_, _)
\* the stable sort of the members of a component by the seq of their entries
sort_by_key(p, s) ==
    IF Len(s) <= 1 THEN s
    ELSE LET key(x)  == lookup(p, x)[1].seq
             sorted  == sort_by_key(p, SubSeq(s, 1, Len(s) - 1))
             last    == s[Len(s)]
             k       == Cardinality({ i \in 1..Len(sorted) : key(sorted[i]) <= key(last) })
         IN  SubSeq(sorted, 1, k) \o <<last>> \o SubSeq(sorted, k + 1, Len(sorted))

data_insert(data, key, val) == [k \in DOMAIN data \cup {key} |-> IF k = key THEN val ELSE data[k]]

data_get(data, key) == IF key \in DOMAIN data THEN Some(data[key]) ELSE None

RECURSIVE Reach(_, _, _)
\* the instances reachable from the instances of todo through the deps edges
\* of the entries of the log (an instance without an entry has no edges)
Reach(p, todo, seen) ==
    IF todo \subseteq seen THEN seen
    ELSE Reach(p,
               UNION { lookup(p, I)[1].deps : I \in { J \in todo : lookup(p, J) # None } },
               seen \cup todo)

\* the transitive dependencies of inst in the log
TransDeps(p, inst) ==
    IF lookup(p, inst) = None THEN {} ELSE Reach(p, lookup(p, inst)[1].deps, {})

HasStatus(p, I, statuses) == lookup(p, I) # None /\ lookup(p, I)[1].status \in statuses

\* history records what the execution engine did, for the properties: an
\* "apply" for a Set written to the store (with the status the entry had), a
\* "respond" for a read answered (with the value and the part of the read's
\* dependency closure that is not Executed), a "run" for a call of
\* execute_cmd that returned
ApplyEvent(p, inst, entry) ==
    [ev |-> "apply", instance |-> inst, cmd |-> entry.cmd, status |-> entry.status]

RespondEvent(p, inst, entry) ==
    [ev |-> "respond", instance |-> inst, key |-> entry.cmd.key,
     val |-> IF entry.cmd.key \in DOMAIN p.data THEN <<p.data[entry.cmd.key]>> ELSE <<>>,
     unapplied |-> { I \in TransDeps(p, inst) \ {inst} : ~HasStatus(p, I, {"Executed"}) }]

RunEvent(p, root, after) ==
    [ev |-> "run", root |-> root,
     unready |-> { I \in TransDeps(p, root) : ~HasStatus(p, I, {"Committed", "Executed"}) },
     acted |-> Len(after.history) > Len(p.history),
     left |-> { I \in Reach(after, {root}, {}) : ~HasStatus(after, I, {"Executed"}) }]

\* the body of "for inst in sorted": st = [p, out]
execute_inst(st, inst) ==
    LET p     == st.p
        entry == lookup(p, inst)
    IN  IF p.panicked \/ entry = None THEN st
        ELSE IF entry[1].status = "Executed" THEN st
        ELSE IF entry[1].cmd.op = "Set"
        THEN [st EXCEPT !.p = mark_executed(
                 [p EXCEPT !.data = data_insert(@, entry[1].cmd.key, entry[1].cmd.val),
                           !.history = Append(@, ApplyEvent(p, inst, entry[1]))],
                 inst)]
        ELSE IF inst.replica # p.replica_name THEN st
        ELSE IF inst.instance_num + 1 > Len(p.app_meta)
        THEN [st EXCEPT !.p.panicked = TRUE]
        ELSE LET meta == p.app_meta[inst.instance_num + 1]
                 resp == ClientResponse(meta.msg_id, meta.client_id,
                             [op |-> "Get", key |-> entry[1].cmd.key,
                              val |-> data_get(p.data, entry[1].cmd.key)])
             IN  [p   |-> mark_executed(
                              [p EXCEPT !.pending_reads = @ \ {inst},
                                        !.history = Append(@, RespondEvent(p, inst, entry[1]))],
                              inst),
                  out |-> Append(st.out, resp)]

RECURSIVE execute_insts(_, _)
execute_insts(st, insts) ==
    IF insts = <<>> THEN st
    ELSE execute_insts(execute_inst(st, Head(insts)), Tail(insts))

RECURSIVE execute_sccs_forward(_, _)
\* mutant of execute_sccs: the components are walked without ".rev()"
execute_sccs_forward(st, order) ==
    IF order = <<>> \/ st.p.panicked THEN st
    ELSE IF /\ Len(order[1]) >= 2
            /\ \E x \in Elems(order[1]) : lookup(st.p, x) = None
    THEN [st EXCEPT !.p.panicked = TRUE]
    ELSE execute_sccs_forward(execute_insts(st, sort_by_key(st.p, order[1])),
                              Tail(order))

RECURSIVE execute_sccs(_, _)
\* the "for mut sorted in order.into_iter().rev()" loop of execute_cmd; the
\* unwrap in the sort key panics when a member that is compared has no entry
execute_sccs(st, order) ==
    IF order = <<>> \/ st.p.panicked THEN st
    ELSE IF /\ Len(order[Len(order)]) >= 2
            /\ \E x \in Elems(order[Len(order)]) : lookup(st.p, x) = None
    THEN [st EXCEPT !.p.panicked = TRUE]
    ELSE execute_sccs(execute_insts(st, sort_by_key(st.p, order[Len(order)])),
                      SubSeq(order, 1, Len(order) - 1))

\* "let sccs = self.tarjan_scc(&graph); let order = self.topo_sort_scc(&sccs, &graph)"
execute_order(graph, ord) == topo_sort_scc(tarjan_scc(graph, ord), graph, ord)

\* the return of execute_cmd: the run is recorded in the history
Returned(p, root, st) ==
    IF st.p.panicked THEN st
    ELSE [st EXCEPT !.p.history = Append(@, RunEvent(p, root, st.p))]

execute_cmd(p, root, ord) ==
    Returned(p, root,
             execute_sccs([p |-> p, out |-> <<>>],
                          execute_order(build_dep_graph(p, root, ord), ord)))

get_pending_reads(p, write_instance, ord) ==
    SelectSeq(iter(p.pending_reads, ord),
              LAMBDA r : lookup(p, r) # None /\ write_instance \in lookup(p, r)[1].deps)

deps_all_ready(p, inst) ==
    /\ lookup(p, inst) # None
    /\ \A dep_inst \in lookup(p, inst)[1].deps :
          /\ lookup(p, dep_inst) # None
          /\ lookup(p, dep_inst)[1].status \in {"Committed", "Executed"}

\* out_msgs.append(&mut exec_out): the outputs of r after the outputs out
After(out, r) == [p |-> r.p, out |-> out \o r.out]

\* a panic in a callee ends the run of the handler that p entered
Checked(p, r) == IF r.p.panicked THEN Panic(p) ELSE r

RECURSIVE execute_ready_reads(_, _, _)
\* the "for read_inst in pending_reads_on_write" loop of handle_pending_reads
execute_ready_reads(st, reads, ord) ==
    IF reads = <<>> \/ st.p.panicked THEN st
    ELSE IF deps_all_ready(st.p, Head(reads))
    THEN execute_ready_reads(After(st.out, execute_cmd(st.p, Head(reads), ord)),
                             Tail(reads), ord)
    ELSE execute_ready_reads(st, Tail(reads), ord)

\* mutant of handle_pending_reads: no check of the deps of the write
handle_pending_reads_unchecked(p, instance, ord) ==
    LET pending_reads_on_write == get_pending_reads(p, instance, ord)
    IN  IF pending_reads_on_write = <<>> THEN Ret(p, <<>>)
        ELSE execute_ready_reads(execute_cmd(p, instance, ord), pending_reads_on_write, ord)

\* mod.rs handle_pending_reads: the outputs of executing the write are kept
handle_pending_reads(p, instance, ord) ==
    LET pending_reads_on_write == get_pending_reads(p, instance, ord)
    IN  IF pending_reads_on_write = <<>> THEN Ret(p, <<>>)
        ELSE IF ~deps_all_ready(p, instance) THEN Ret(p, <<>>)
        ELSE execute_ready_reads(execute_cmd(p, instance, ord), pending_reads_on_write, ord)

\* ------------------------------------------------- Processor::process (mod.rs)
\* Vec::insert(index, element): the elements from index on move one to the right
vec_insert(vec, index, element) ==
    SubSeq(vec, 1, index) \o <<element>> \o SubSeq(vec, index + 1, Len(vec))

\* mod.rs get_interfs(replica, inst_num): widens the entry stored in the slot
get_interfs_slot(p, replica, inst_num) ==
    LET own  == Instance(replica, inst_num)
        cmd  == lookup(p, own)[1].cmd
        deps == { I \in AllSlots(p) \ {own} :
                    LET c == lookup(p, I)
                    IN  /\ c # None
                        /\ c[1].cmd.op # "Get"
                        /\ c[1].status # "Executed"
                        /\ conflicts_with(c[1].cmd, cmd) }
        max_seq == SetMax({ lookup(p, I)[1].seq : I \in deps })
    IN  [p EXCEPT !.cmds[replica][inst_num + 1][1].seq  = Max(@, 1 + max_seq),
                  !.cmds[replica][inst_num + 1][1].deps = @ \cup deps]

process_ClientRequest(p, msg) ==
    LET vec_size == Len(p.cmds[p.replica_name])
        inst_num == IF vec_size > 0 THEN p.instance_num + 1 ELSE p.instance_num
        p1 == [p EXCEPT !.instance_num = inst_num,
                        !.quorum_ctr = Append(@, 0),
                        !.cmds[p.replica_name] =
                            Append(@, Some(CmdEntry(msg.cmd, 0, {}, "PreAccepted")))]
        p2 == get_interfs_slot(p1, p.replica_name, inst_num)
        p3 == [p2 EXCEPT !.app_meta = Append(@, [client_id |-> msg.client_id,
                                                 msg_id |-> msg.msg_id])]
        inst  == Instance(p.replica_name, inst_num)
        entry == lookup(p3, inst)[1]
    IN  Ret(p3, <<PreAcceptMsg(entry.cmd, entry.seq, entry.deps, inst)>>)

\* the slot write shared by the PreAccept, Accept and Commit branches
process_insert(p, msg, status) ==
    LET replica  == msg.instance.replica
        inst_num == msg.instance.instance_num
        cmds1    == resize_cmds(p.cmds, inst_num + 1, replica)
    IN  [p EXCEPT !.cmds = [cmds1 EXCEPT ![replica] =
            vec_insert(@, inst_num, Some(CmdEntry(msg.cmd, msg.seq, msg.deps, status)))]]

process_PreAccept(p, msg) ==
    LET p1    == process_insert(p, msg, "PreAccepted")
        p2    == get_interfs_slot(p1, msg.instance.replica, msg.instance.instance_num)
        entry == lookup(p2, msg.instance)[1]
    IN  Ret(p2, <<PreAcceptOkMsg(entry.seq, entry.deps, msg.instance)>>)

\* the Commit phase of the leader (PreAcceptOk at fast quorum, and the same
\* text in AcceptOk at majority): p holds the entry, already set to Committed
process_decide(p, msg, ord) ==
    LET inst_num   == msg.instance.instance_num
        entry      == lookup(p, msg.instance)[1]
        commit_msg == CommitMsg(entry.cmd, entry.seq, entry.deps, msg.instance)
    IN  IF entry.cmd.op = "Set"
        THEN IF inst_num + 1 > Len(p.app_meta) THEN Panic(p)
             ELSE LET client_meta == p.app_meta[inst_num + 1]
                      client_response ==
                          ClientResponse(client_meta.msg_id, client_meta.client_id,
                              [op |-> "Set", key |-> entry.cmd.key, status |-> TRUE])
                  IN  Checked(p, After(<<commit_msg, client_response>>,
                                       handle_pending_reads(p, msg.instance, ord)))
        ELSE IF deps_all_ready(p, msg.instance)
        THEN Checked(p, After(<<commit_msg>>, execute_cmd(p, msg.instance, ord)))
        ELSE Ret([p EXCEPT !.pending_reads = @ \cup {msg.instance}], <<commit_msg>>)

\* N / 2 and N - 1, computed in place by process
process_majority(p) == Len(p.replica_list) \div 2

process_fast_quorum(p) == Len(p.replica_list) - 1

process_PreAcceptOk(p, msg, ord) ==
    LET replica  == msg.instance.replica
        idx      == msg.instance.instance_num + 1
        majority == process_majority(p)
        fq       == process_fast_quorum(p)
    IN  IF replica # p.replica_name THEN Ret(p, <<>>)
        ELSE IF lookup(p, msg.instance) = None THEN Panic(p)
        ELSE
        LET e == lookup(p, msg.instance)[1]
        IN  IF e.status = "Committed" THEN Ret(p, <<>>)
            ELSE IF /\ e.status = "Accepted"
                    /\ Len(p.quorum_ctr) >= idx
                    /\ p.quorum_ctr[idx] >= majority
            THEN Ret(p, <<>>)
            ELSE IF Len(p.quorum_ctr) < idx THEN Panic(p)
            ELSE
            LET e1  == widen(e, msg)
                ctr == p.quorum_ctr[idx] + 1
                p1  == [p EXCEPT !.quorum_ctr[idx] = ctr,
                                 !.cmds[replica][idx] = Some(e1)]
            IN  IF ctr = majority
                THEN IF e1.status = "Accepted"
                     THEN Ret([p1 EXCEPT !.quorum_ctr[idx] = 0],
                              <<AcceptMsg(e1.cmd, e1.seq, e1.deps, msg.instance)>>)
                     ELSE Ret(p1, <<>>)
                ELSE IF ctr = fq
                THEN IF e1.status = "PreAccepted"
                     THEN process_decide([p1 EXCEPT !.cmds[replica][idx][1].status = "Committed"],
                                         msg, ord)
                     ELSE Panic(p)
                ELSE Ret(p1, <<>>)

\* mutant of process_Commit: the entry is stored and nothing else is done
process_Commit_stores_only(p, msg, ord) ==
    Ret(process_insert(p, msg, "Committed"), <<>>)

process_Commit(p, msg, ord) ==
    LET p1 == process_insert(p, msg, "Committed")
    IN  IF msg.cmd.op = "Set"
        THEN Checked(p, handle_pending_reads(p1, msg.instance, ord))
        ELSE Ret(p1, <<>>)

process_Accept(p, msg) ==
    Ret(process_insert(p, msg, "Accepted"), <<AcceptOkMsg(msg.instance)>>)

process_AcceptOk(p, msg, ord) ==
    LET replica  == msg.instance.replica
        idx      == msg.instance.instance_num + 1
        majority == process_majority(p)
    IN  IF replica # p.replica_name THEN Ret(p, <<>>)
        ELSE IF lookup(p, msg.instance) = None THEN Panic(p)
        ELSE
        LET e == lookup(p, msg.instance)[1]
        IN  IF e.status = "Committed" THEN Ret(p, <<>>)
            ELSE IF Len(p.quorum_ctr) < idx THEN Panic(p)
            ELSE
            LET ctr == p.quorum_ctr[idx] + 1
                p1  == [p EXCEPT !.quorum_ctr[idx] = ctr]
            IN  IF ctr = majority
                THEN process_decide([p1 EXCEPT !.cmds[replica][idx][1].status = "Committed"],
                                    msg, ord)
                ELSE Ret(p1, <<>>)

process(p, m, ord) ==
    CASE "cmd" \in DOMAIN m /\ "client_id" \in DOMAIN m -> process_ClientRequest(p, m)
      [] m.type = "PreAccept"   -> process_PreAccept(p, m)
      [] m.type = "PreAcceptOk" -> process_PreAcceptOk(p, m, ord)
      [] m.type = "Accept"      -> process_Accept(p, m)
      [] m.type = "AcceptOk"    -> process_AcceptOk(p, m, ord)
      [] m.type = "Commit"      -> process_Commit(p, m, ord)

\* ----------------------------------------------------------------- router
\* Sender::before_send: broadcast to the peers, reply to the sender, or hand
\* the response to the client (which leaves the replicas' network)
Route(p, m, sender) ==
    IF m.type \in {"PreAccept", "Accept", "Commit"}
    THEN { [to |-> p.replica_list[i], from |-> p.replica_name, msg |-> m] :
             i \in { j \in 1..Len(p.replica_list) : p.replica_list[j] # p.replica_name } }
    ELSE IF m.type \in {"PreAcceptOk", "AcceptOk"}
    THEN { [to |-> sender, from |-> p.replica_name, msg |-> m] }
    ELSE {}

RouteAll(p, out, sender) == UNION { Route(p, out[i], sender) : i \in 1..Len(out) }

\* the history keeps what a command leader emits: its broadcasts and the
\* responses to clients (the replies of the followers are in net)
Emitted(p, out) ==
    { [by |-> p.replica_name, msg |-> out[i]] :
        i \in { j \in 1..Len(out) : out[j].type \notin {"PreAcceptOk", "AcceptOk"} } }

Count(o) == IF o \in DOMAIN sent THEN sent[o] ELSE 0

Record(p, out) ==
    LET new == Emitted(p, out)
    IN  IF new = {} THEN sent
        ELSE [o \in DOMAIN sent \cup new |-> Count(o) + (IF o \in new THEN 1 ELSE 0)]

\* ---------------------------------------------------------------- actions
Replicas3 == <<"r0", "r1", "r2">>

Replicas5 == <<"r0", "r1", "r2", "r3", "r4">>

InitWith(replica_list, debug_assertions, q) ==
    /\ proc = [r \in { replica_list[i] : i \in 1..Len(replica_list) } |->
                 NewProcessor(replica_list, r, debug_assertions)]
    /\ net = {}
    /\ sent = [o \in {} |-> 0]
    /\ delivered = {}
    /\ quota = q
    /\ issued = [c \in Clients |-> 0]
    /\ ndup = 0
    /\ steps = 0

\* two clients, c0 at r0 and c1 at r1, MaxReqs requests each
TwoClients == [c \in Clients |-> IF c = "c2" THEN 0 ELSE MaxReqs]

Init == InitWith(Replicas3, TRUE, TwoClients)

Init5 == InitWith(Replicas5, TRUE, TwoClients)

\* one run of a handler at replica r: state change and outputs, atomically
Step(r, res, sender, consumed) ==
    /\ proc' = [proc EXCEPT ![r] = res.p]
    /\ net' = (net \ consumed) \cup RouteAll(res.p, res.out, sender)
    /\ sent' = Record(res.p, res.out)

\* the id of the n-th request of client c, also the value it writes
ReqId(c, n) == <<c, n>>

ClientRequestMsg(c, op, k) ==
    [client_id |-> c, msg_id |-> ReqId(c, issued[c] + 1),
     cmd |-> IF op = "Set" THEN CmdSet(k, ReqId(c, issued[c] + 1)) ELSE CmdGet(k)]

ClientRequest(H(_, _), c, op, k) ==
    /\ issued[c] < quota[c]
    /\ ~proc[ServerOf(c)].panicked
    /\ Step(ServerOf(c), H(proc[ServerOf(c)], ClientRequestMsg(c, op, k)), c, {})
    /\ issued' = [issued EXCEPT ![c] = @ + 1]
    /\ UNCHANGED <<delivered, quota, ndup>>

\* the dispatch to the handlers of handlers.rs
Handler(p, m) ==
    CASE "cmd" \in DOMAIN m /\ "client_id" \in DOMAIN m -> client_request_handler(p, m)
      [] m.type = "PreAccept"   -> pre_accept_handler(p, m)
      [] m.type = "PreAcceptOk" -> pre_accept_ok_handler(p, m)
      [] m.type = "Accept"      -> accept_handler(p, m)
      [] m.type = "AcceptOk"    -> accept_ok_handler(p, m)
      [] m.type = "Commit"      -> commit_handler(p, m)

Handled(env) ==
    IF env.msg.type \in {"PreAcceptOk", "AcceptOk"} THEN delivered \cup {env} ELSE delivered

Deliver(H(_, _), env, type) ==
    /\ env \in net
    /\ env.msg.type = type
    /\ ~proc[env.to].panicked
    /\ Step(env.to, H(proc[env.to], env.msg), env.from, {env})
    /\ delivered' = Handled(env)
    /\ UNCHANGED <<quota, issued, ndup>>

\* the substrate may deliver a message again
Redeliver(H(_, _), env) ==
    /\ env \in net
    /\ ndup < MaxDups
    /\ ~proc[env.to].panicked
    /\ Step(env.to, H(proc[env.to], env.msg), env.from, {})
    /\ delivered' = Handled(env)
    /\ ndup' = ndup + 1
    /\ UNCHANGED <<quota, issued>>

Request == \E c \in Clients, op \in {"Set", "Get"} : \E k \in KeysOf(c) :
             ClientRequest(Handler, c, op, k)

PreAccept == \E env \in net : Deliver(Handler, env, "PreAccept")

PreAcceptOk == \E env \in net : Deliver(Handler, env, "PreAcceptOk")

Accept == \E env \in net : Deliver(Handler, env, "Accept")

AcceptOk == \E env \in net : Deliver(Handler, env, "AcceptOk")

Commit == \E env \in net : Deliver(Handler, env, "Commit")

Next ==
    \/ Request /\ UNCHANGED steps
    \/ PreAccept /\ UNCHANGED steps
    \/ PreAcceptOk /\ UNCHANGED steps
    \/ Accept /\ UNCHANGED steps
    \/ AcceptOk /\ UNCHANGED steps
    \/ Commit /\ UNCHANGED steps

\* three replicas, handlers.rs, every interleaving of requests and deliveries
Spec == Init /\ [][Next]_vars

Counted(A) == steps < MaxSteps /\ A /\ steps' = steps + 1

Next5 ==
    \/ Counted(Request)
    \/ Counted(PreAccept)
    \/ Counted(PreAcceptOk)
    \/ Counted(Accept)
    \/ Counted(AcceptOk)
    \/ Counted(Commit)

\* five replicas, handlers.rs, every run of at most MaxSteps handler runs
Spec5 == Init5 /\ [][Next5]_vars

\* ------------------------------------------- actions of process (mod.rs)
DefaultOrder(p) == [reps |-> p.replica_list, up |-> TRUE, asc |-> TRUE]

ReverseOrder(p) ==
    [reps |-> [i \in 1..Len(p.replica_list) |-> p.replica_list[Len(p.replica_list) + 1 - i]],
     up |-> FALSE, asc |-> FALSE]

\* the iteration orders tried for a run of process on m: an order and its
\* reverse, so that every pair of members is met in both orders; the order
\* matters only to a run that reaches the execution engine (a pending read
\* exists, or the instance decided is a read)
Orders(p, m) ==
    IF /\ m.type \in {"PreAcceptOk", "AcceptOk", "Commit"}
       /\ \/ p.pending_reads # {}
          \/ lookup(p, m.instance) # None /\ lookup(p, m.instance)[1].cmd.op = "Get"
    THEN { DefaultOrder(p), ReverseOrder(p) }
    ELSE { DefaultOrder(p) }

ProcDeliver(env, type) ==
    \E ord \in Orders(proc[env.to], env.msg) :
        Deliver(LAMBDA p, m : process(p, m, ord), env, type)

\* the workload of reader.rs and writer.rs: c0 reads, the others write
OpOf(c) == IF c = "c0" THEN "Get" ELSE "Set"

ProcRequest ==
    \E c \in Clients :
        ClientRequest(LAMBDA p, m : process(p, m, DefaultOrder(p)), c, OpOf(c), "a")

ProcPreAccept == \E env \in net : ProcDeliver(env, "PreAccept")

ProcPreAcceptOk == \E env \in net : ProcDeliver(env, "PreAcceptOk")

ProcAccept == \E env \in net : ProcDeliver(env, "Accept")

ProcAcceptOk == \E env \in net : ProcDeliver(env, "AcceptOk")

ProcCommit == \E env \in net : ProcDeliver(env, "Commit")

ProcNext ==
    \/ ProcRequest /\ UNCHANGED steps
    \/ ProcPreAccept /\ UNCHANGED steps
    \/ ProcPreAcceptOk /\ UNCHANGED steps
    \/ ProcAccept /\ UNCHANGED steps
    \/ ProcAcceptOk /\ UNCHANGED steps
    \/ ProcCommit /\ UNCHANGED steps

\* three replicas, process of mod.rs, one reader at r0 and one writer at r1,
\* every interleaving of requests and deliveries
SpecProc == Init /\ [][ProcNext]_vars

\* the substrate may deliver the Commit of a write again
ProcDuplicate ==
    \E env \in net :
        /\ env.msg.type = "Commit"
        /\ env.msg.cmd.op = "Set"
        /\ \E ord \in Orders(proc[env.to], env.msg) :
               Redeliver(LAMBDA p, m : process(p, m, ord), env)

NextDup ==
    \/ ProcRequest /\ UNCHANGED steps
    \/ ProcPreAccept /\ UNCHANGED steps
    \/ ProcPreAcceptOk /\ UNCHANGED steps
    \/ ProcAccept /\ UNCHANGED steps
    \/ ProcAcceptOk /\ UNCHANGED steps
    \/ ProcCommit /\ UNCHANGED steps
    \/ ProcDuplicate /\ UNCHANGED steps

\* SpecProc with at most MaxDups Commits of a write delivered twice
SpecDup == Init /\ [][NextDup]_vars

\* one reader at r0 and a writer at each of r1 and r2, one request each
ThreeClients == [c \in Clients |-> MaxReqs]

InitThree == InitWith(Replicas3, TRUE, ThreeClients)

\* the writers start before the reader: c2, then c1, then c0
InTurn(c) ==
    \A d \in Clients :
        (c = "c0" /\ d # "c0") \/ (c = "c1" /\ d = "c2") => issued[d] = quota[d]

TurnRequest ==
    \E c \in Clients :
        /\ InTurn(c)
        /\ ClientRequest(LAMBDA p, m : process(p, m, DefaultOrder(p)), c, OpOf(c), "a")

ProcCounted(A) == steps < MaxProcSteps /\ A /\ steps' = steps + 1

NextThree ==
    \/ ProcCounted(TurnRequest)
    \/ ProcCounted(ProcPreAccept)
    \/ ProcCounted(ProcPreAcceptOk)
    \/ ProcCounted(ProcAccept)
    \/ ProcCounted(ProcAcceptOk)
    \/ ProcCounted(ProcCommit)

\* three replicas, process of mod.rs, three command leaders, every run of at
\* most MaxProcSteps handler runs
SpecThree == InitThree /\ [][NextThree]_vars

InitWriter ==
    InitWith(Replicas3, TRUE, [c \in Clients |-> IF c = "c1" THEN MaxSeqReqs ELSE 0])

\* three replicas, process of mod.rs, one writer issuing MaxSeqReqs requests
\* to r1, every run of at most MaxProcSteps handler runs
SpecWriter == InitWriter /\ [][NextThree]_vars

\* ------------------------------------ the execution engine on drawn logs
\* one write to key "a" led by each replica
Writers == { Instance(Replicas3[i], 0) : i \in 1..Len(Replicas3) }

ClientOf(r) == CHOOSE c \in Clients : ServerOf(c) = r

\* the logs drawn: every entry Committed; an entry without interfering
\* command has seq 1, one with dependencies a larger seq (get_interfs: 1 + the
\* largest seq seen); of two writes to one key at least one depends on the other
Drawn(seqs, deps) ==
    /\ \A I \in Writers : I \notin deps[I] /\ (deps[I] = {} <=> seqs[I] = 1)
    /\ \A I \in Writers, J \in Writers : I # J => I \in deps[J] \/ J \in deps[I]

WithLog(p, seqs, deps) ==
    [p EXCEPT !.cmds = [r \in DOMAIN p.cmds |->
        <<Some(CmdEntry(CmdSet("a", ReqId(ClientOf(r), 1)),
                        seqs[Instance(r, 0)], deps[Instance(r, 0)], "Committed"))>>]]

\* every replica holds the same committed (cmd, seq, deps) for every instance
InitEngine ==
    \E seqs \in [Writers -> 1..MaxSeq], deps \in [Writers -> SUBSET Writers] :
        /\ Drawn(seqs, deps)
        /\ proc = [r \in { Replicas3[i] : i \in 1..Len(Replicas3) } |->
                     WithLog(NewProcessor(Replicas3, r, TRUE), seqs, deps)]
        /\ net = {}
        /\ sent = [o \in {} |-> 0]
        /\ delivered = {}
        /\ quota = [c \in Clients |-> 0]
        /\ issued = [c \in Clients |-> 0]
        /\ ndup = 0
        /\ steps = 0

\* replica r runs execute_cmd from a root that is ready and not yet executed
Execute ==
    \E r \in DOMAIN proc : \E root \in AllSlots(proc[r]) :
        \E ord \in { DefaultOrder(proc[r]), ReverseOrder(proc[r]) } :
            /\ HasStatus(proc[r], root, {"Committed"})
            /\ deps_all_ready(proc[r], root)
            /\ proc' = [proc EXCEPT ![r] = execute_cmd(proc[r], root, ord).p]
            /\ UNCHANGED <<net, sent, delivered, quota, issued, ndup, steps>>

NextEngine == Execute

\* three replicas with one drawn log, every sequence of runs of execute_cmd
SpecEngine == InitEngine /\ [][NextEngine]_vars

\* three replicas, handlers.rs, one client sending MaxSeqReqs requests to r1,
\* every run of at most MaxSteps handler runs
SpecLeader == InitWriter /\ [][Next5]_vars

\* --------------------------------------------- cmds_insert on drawn inputs
\* the slots and entries handed to cmds_insert: two commands, two seqs
InsertSlots == { Instance("r1", i) : i \in 0..MaxSlot }

InsertEntries ==
    { CmdEntry(cmd, seq, {}, status) :
        cmd \in { CmdSet("a", ReqId("c1", 1)), CmdSet("a", ReqId("c1", 2)) },
        seq \in 1..2, status \in {"PreAccepted", "Committed"} }

\* debug and release builds
InitInsert ==
    \E debug_assertions \in BOOLEAN :
        InitWith(Replicas3, debug_assertions, [c \in Clients |-> 0])

Insert ==
    \E r \in DOMAIN proc : \E instance \in InsertSlots : \E cmd_entry \in InsertEntries :
        /\ steps < MaxInserts
        /\ ~proc[r].panicked
        /\ proc' = [proc EXCEPT ![r] = cmds_insert(proc[r], instance, cmd_entry)]
        /\ steps' = steps + 1
        /\ UNCHANGED <<net, sent, delivered, quota, issued, ndup>>

NextInsert == Insert

\* at most MaxInserts calls of cmds_insert on the logs of three replicas
SpecInsert == InitInsert /\ [][NextInsert]_vars

\* ----------------------------------------------- ensembles of every size
Replicas7 == <<"r0", "r1", "r2", "r3", "r4", "r5", "r6">>

\* the clients whose server is a member of the ensemble send MaxReqs requests
ClientsOf(replica_list) ==
    [c \in Clients |->
        IF \E i \in 1..Len(replica_list) : replica_list[i] = ServerOf(c)
        THEN MaxReqs ELSE 0]

InitSizes ==
    \E n \in 1..MaxN :
        InitWith(SubSeq(Replicas7, 1, n), TRUE, ClientsOf(SubSeq(Replicas7, 1, n)))

SizeCounted(A) == steps < MaxSizeSteps /\ A /\ steps' = steps + 1

NextSizes ==
    \/ SizeCounted(Request)
    \/ SizeCounted(PreAccept)
    \/ SizeCounted(PreAcceptOk)
    \/ SizeCounted(Accept)
    \/ SizeCounted(AcceptOk)
    \/ SizeCounted(Commit)

\* ensembles of 1 to MaxN replicas, handlers.rs, every run of at most
\* MaxSizeSteps handler runs
SpecSizes == InitSizes /\ [][NextSizes]_vars

\* ------------------------------------------------ misaddressed replies
\* the substrate hands a reply to a replica that does not lead its instance
Misroute ==
    \E env \in net : \E r \in DOMAIN proc \ {env.msg.instance.replica} :
        /\ env.msg.type \in {"PreAcceptOk", "AcceptOk"}
        /\ ~proc[r].panicked
        /\ Step(r, Handler(proc[r], env.msg), env.from, {env})
        /\ UNCHANGED <<delivered, quota, issued, ndup>>

NextMisroute ==
    \/ Counted(Request)
    \/ Counted(PreAccept)
    \/ Counted(PreAcceptOk)
    \/ Counted(Accept)
    \/ Counted(AcceptOk)
    \/ Counted(Commit)
    \/ Counted(Misroute)

\* three replicas, handlers.rs, replies may reach the wrong replica, every
\* run of at most MaxSteps handler runs
SpecMisroute == Init /\ [][NextMisroute]_vars

\* ------------------------------------------------------------- properties
Rs == DOMAIN proc

Slots == UNION { AllSlots(proc[r]) : r \in Rs }

Present(r, I) == lookup(proc[r], I) # None

EntryAt(r, I) == lookup(proc[r], I)[1]

CommittedAt(r, I) == Present(r, I) /\ EntryAt(r, I).status \in {"Committed", "Executed"}

\* the instances replica r leads
Own(r) == { Instance(r, i - 1) : i \in 1..Len(proc[r].cmds[r]) }

EmittedBy(r, m) == [by |-> r, msg |-> m] \in DOMAIN sent

\* all messages were delivered and no replica has crashed
Quiescent == net = {} /\ \A r \in Rs : ~proc[r].panicked

\* C1: an instance that is Committed (or Executed) on two replicas holds the
\* same cmd, seq and deps on both.
C1_CommitAgreement ==
    \A r1 \in Rs, r2 \in Rs : \A I \in Slots :
        CommittedAt(r1, I) /\ CommittedAt(r2, I) =>
            /\ EntryAt(r1, I).cmd = EntryAt(r2, I).cmd
            /\ EntryAt(r1, I).seq = EntryAt(r2, I).seq
            /\ EntryAt(r1, I).deps = EntryAt(r2, I).deps

\* C2: an instance present in the logs of two replicas holds the same cmd on
\* both.
C2_CommandAgreement ==
    \A r1 \in Rs, r2 \in Rs : \A I \in Slots :
        Present(r1, I) /\ Present(r2, I) => EntryAt(r1, I).cmd = EntryAt(r2, I).cmd

\* the Set requests replica r has admitted: its own instances with their
\* client metadata
SetResponse(r, I) ==
    LET meta == proc[r].app_meta[I.instance_num + 1]
    IN  ClientResponse(meta.msg_id, meta.client_id,
            [op |-> "Set", key |-> EntryAt(r, I).cmd.key, status |-> TRUE])

\* C3 (as a final result): once every message has been delivered and nothing
\* crashed, every Set a replica has received was answered with
\* ClientResponse(Set, status = true).
C3_SetAnswered ==
    Quiescent =>
        \A r \in Rs : \A I \in Own(r) :
            EntryAt(r, I).cmd.op = "Set" => EmittedBy(r, SetResponse(r, I))

\* C4: once every message has been delivered and nothing crashed, all
\* replicas hold the same key-value store.
C4_StoreConvergence ==
    Quiescent => \A r1 \in Rs, r2 \in Rs : proc[r1].data = proc[r2].data

\* the events of the execution history of replica r, by position
EventsAt(r, kind) ==
    { i \in 1..Len(proc[r].history) : proc[r].history[i].ev = kind }

\* the value of the last Set on key that replica r applied before position i
LastApplied(r, key, i) ==
    LET before == { j \in EventsAt(r, "apply") :
                      j < i /\ proc[r].history[j].cmd.key = key }
    IN  IF before = {} THEN None
        ELSE Some(proc[r].history[SetMax(before)].cmd.val)

\* C5: every answer to a read was given when every instance of the read's
\* dependency closure had been applied (was Executed) on the answering
\* replica, and carries the value of the last Set on the key that the replica
\* applied before (none if it applied none).
C5_ReadValue ==
    \A r \in Rs : \A i \in EventsAt(r, "respond") :
        /\ proc[r].history[i].unapplied = {}
        /\ proc[r].history[i].val = LastApplied(r, proc[r].history[i].key, i)

\* C6: a call of execute_cmd that applied or answered something found every
\* transitive dependency of its root in the log at Committed or Executed, and
\* every Set applied was Committed when it was applied.
C6_ExecutionPrecondition ==
    \A r \in Rs :
        /\ \A i \in EventsAt(r, "run") :
              proc[r].history[i].acted => proc[r].history[i].unready = {}
        /\ \A i \in EventsAt(r, "apply") : proc[r].history[i].status = "Committed"

\* C7: no replica applies the Set of one instance to its store twice.
C7_ExactlyOnce ==
    \A r \in Rs : \A i \in EventsAt(r, "apply"), j \in EventsAt(r, "apply") :
        proc[r].history[i].instance = proc[r].history[j].instance => i = j

\* C8: when execute_cmd(I) has returned, I and every instance reachable from
\* I through deps edges is Executed on the replica.
C8_ClosureExecuted ==
    \A r \in Rs : \A i \in EventsAt(r, "run") : proc[r].history[i].left = {}

AcceptEmitted(r, I) ==
    \E o \in DOMAIN sent : o.by = r /\ o.msg.type = "Accept" /\ o.msg.instance = I

\* C9: a leader whose instance has left PreAccepted because a counted
\* PreAcceptOk diverged (status Accepted) and whose PreAcceptOk counter has
\* reached fast_quorum has emitted Accept for it.
C9_DivergenceForcesSlowPath ==
    \A r \in Rs : \A I \in Own(r) :
        (/\ EntryAt(r, I).status = "Accepted"
         /\ proc[r].quorum_ctr[I.instance_num + 1] >= fast_quorum(proc[r]))
            => AcceptEmitted(r, I)

\* the PreAcceptOk replies for I that its leader has handled, after this step
RepliesHandled(I) ==
    { env \in delivered' : env.msg.type = "PreAcceptOk" /\ env.msg.instance = I
                              /\ env.to = I.replica }

\* C10: a step in which a leader takes its instance from PreAccepted to
\* Committed is taken when the PreAcceptOk counter reaches fast_quorum, every
\* reply handled for the instance carried the leader's seq and deps, and the
\* Commit emitted in the step carries the seq and deps of the PreAccept.
C10_FastCommitOnAgreement ==
    [][ \A r \in Rs : \A I \in Own(r) :
          (EntryAt(r, I).status = "PreAccepted"
             /\ lookup(proc'[r], I)[1].status = "Committed") =>
            LET e   == EntryAt(r, I)
                idx == I.instance_num + 1
            IN  /\ proc'[r].quorum_ctr[idx] = fast_quorum(proc[r])
                /\ proc'[r].quorum_ctr[idx] = proc[r].quorum_ctr[idx] + 1
                /\ \A env \in RepliesHandled(I) :
                      env.msg.seq = e.seq /\ env.msg.deps = e.deps
                /\ Cardinality(RepliesHandled(I)) = fast_quorum(proc[r])
                /\ EmittedBy(r, PreAcceptMsg(e.cmd, e.seq, e.deps, I))
                /\ [by |-> r, msg |-> CommitMsg(e.cmd, e.seq, e.deps, I)]
                      \in DOMAIN sent' \ DOMAIN sent
      ]_vars

\* a leader of five replicas has fast-committed after three replies
C10_Witness ==
    \E r \in Rs : \E I \in Own(r) :
        /\ EntryAt(r, I).status = "Committed"
        /\ proc[r].quorum_ctr[I.instance_num + 1] = 3
        /\ proc[r].acc_quorum_ctr[I.instance_num + 1] = 0
        /\ Cardinality(Rs) = 5

\* the rank of a status in PreAccepted < Accepted < Committed < Executed
status_rank(status) ==
    CASE status = "PreAccepted" -> 0
      [] status = "Accepted"    -> 1
      [] status = "Committed"   -> 2
      [] status = "Executed"    -> 3

\* the slots of replica r that hold an entry before and after the step
Kept(r) == { I \in AllSlots(proc[r]) : Present(r, I) /\ lookup(proc'[r], I) # None }

\* C11: no step lowers the status stored in a slot of a replica.
C11_StatusNeverReverses ==
    [][ \A r \in Rs : \A I \in Kept(r) :
          status_rank(lookup(proc'[r], I)[1].status) >= status_rank(EntryAt(r, I).status)
      ]_vars

\* C12: no step lowers the seq stored in a slot of a replica or removes a
\* member of its deps.
C12_SeqDepsNeverShrink ==
    [][ \A r \in Rs : \A I \in Kept(r) :
          /\ lookup(proc'[r], I)[1].seq >= EntryAt(r, I).seq
          /\ EntryAt(r, I).deps \subseteq lookup(proc'[r], I)[1].deps
      ]_vars

\* (status_rank, seq, deps) of e1 is at most that of e2 in the lexicographic
\* order, deps compared by inclusion
LexLeq(e1, e2) ==
    \/ status_rank(e1.status) < status_rank(e2.status)
    \/ /\ status_rank(e1.status) = status_rank(e2.status)
       /\ \/ e1.seq < e2.seq
          \/ e1.seq = e2.seq /\ e1.deps \subseteq e2.deps

\* C13: no step lowers the triple (status_rank, seq, deps) of a slot of a
\* replica in the lexicographic order.
C13_LexMonotone ==
    [][ \A r \in Rs : \A I \in Kept(r) : LexLeq(EntryAt(r, I), lookup(proc'[r], I)[1]) ]_vars

\* every message about instance I was delivered
Settled(I) == \A env \in net : env.msg.instance # I

\* replica r holds instance I decided with the values of the Commit m
HoldsDecision(r, m) ==
    /\ CommittedAt(r, m.instance)
    /\ EntryAt(r, m.instance).cmd = m.cmd
    /\ EntryAt(r, m.instance).seq = m.seq
    /\ EntryAt(r, m.instance).deps = m.deps

\* C14: whatever the delivery order, once the messages exchanged for an
\* instance that was committed are all delivered, every replica holds the
\* instance Committed with the (cmd, seq, deps) of its Commit.
C14_ReorderInvariance ==
    \A o \in DOMAIN sent :
        o.msg.type = "Commit" /\ Settled(o.msg.instance) /\ ~proc[o.by].panicked =>
            \A r \in Rs : ~proc[r].panicked => HoldsDecision(r, o.msg)

\* the requests the clients of replica L have sent to it
Admitted(L) ==
    LET f(c) == IF ServerOf(c) = L THEN issued[c] ELSE 0
    IN  f("c0") + f("c1") + f("c2")

\* the instances of leader L that replica r holds decided
CommittedOf(r, L) == { I \in AllSlots(proc[r]) : I.replica = L /\ CommittedAt(r, I) }

\* C15 (on the committed instances of the final logs): a message delivered
\* twice adds nothing to the outcome, so a replica never holds more decided
\* instances of a leader than the leader has admitted requests, as in every
\* run that delivers each message once.
C15_DuplicateTolerance ==
    \A r \in Rs, L \in Rs : Cardinality(CommittedOf(r, L)) <= Admitted(L)

\* the fields of a Processor (the event history is an observer, not a field)
Fields(p) == [p EXCEPT !.history = <<>>]

\* replica r holds the instance of the Commit m at status Committed with the
\* values of m
AlreadyCommitted(r, m) ==
    /\ Present(r, m.instance)
    /\ EntryAt(r, m.instance) = CmdEntry(m.cmd, m.seq, m.deps, "Committed")

\* C16: the step that handles a Commit at a replica whose slot is already
\* Committed with the values of the message leaves every field of the replica
\* unchanged and emits nothing.
C16_IdempotentCommit ==
    [][ \A env \in net \ net' :
            env.msg.type = "Commit" /\ AlreadyCommitted(env.to, env.msg) =>
                /\ Fields(proc'[env.to]) = Fields(proc[env.to])
                /\ net' = net \ {env}
                /\ sent' = sent ]_vars

\* the broadcasts of the given type that leader r has emitted for instance I,
\* each counted as often as it was emitted
Broadcasts(r, type, I) ==
    { o \in DOMAIN sent : o.by = r /\ o.msg.type = type /\ o.msg.instance = I }

\* the responses replica r has emitted for the request msg_id
Responses(r, msg_id) ==
    { o \in DOMAIN sent : o.by = r /\ o.msg.type = "ClientResponse" /\ o.msg.msg_id = msg_id }

AtMostOnce(S) == Cardinality(S) <= 1 /\ \A o \in S : sent[o] <= 1

\* C17: for every instance its leader emits at most one Accept broadcast, at
\* most one Commit broadcast and at most one ClientResponse.
C17_DecideAtMostOnce ==
    \A r \in Rs : \A I \in Own(r) :
        /\ AtMostOnce(Broadcasts(r, "Accept", I))
        /\ AtMostOnce(Broadcasts(r, "Commit", I))
        /\ I.instance_num + 1 <= Len(proc[r].app_meta) =>
               AtMostOnce(Responses(r, proc[r].app_meta[I.instance_num + 1].msg_id))

\* the quorum counters leader r keeps for its instance I
CountersAt(r, I) ==
    <<proc[r].quorum_ctr[I.instance_num + 1], proc[r].acc_quorum_ctr[I.instance_num + 1]>>

\* C18: the step that handles a PreAcceptOk at the leader while the instance
\* is Committed emits nothing and leaves the entry and both quorum counters of
\* the instance unchanged.
C18_LatePreAcceptOk ==
    [][ \A env \in net \ net' :
            /\ env.msg.type = "PreAcceptOk"
            /\ env.msg.instance.replica = env.to
            /\ Present(env.to, env.msg.instance)
            /\ EntryAt(env.to, env.msg.instance).status = "Committed"
            => /\ net' = net \ {env}
               /\ sent' = sent
               /\ lookup(proc'[env.to], env.msg.instance) = lookup(proc[env.to], env.msg.instance)
               /\ proc'[env.to].quorum_ctr = proc[env.to].quorum_ctr
               /\ proc'[env.to].acc_quorum_ctr = proc[env.to].acc_quorum_ctr ]_vars

\* both followers' replies for an instance were handled by its leader, which
\* committed on the first (one reply counted, no AcceptOk): the second reply
\* was handled while the instance was Committed
C18_Witness ==
    \E r \in Rs : \E I \in Own(r) :
        /\ EntryAt(r, I).status = "Committed"
        /\ CountersAt(r, I) = <<1, 0>>
        /\ Cardinality({ env \in delivered :
               env.to = r /\ env.msg.type = "PreAcceptOk" /\ env.msg.instance = I }) = 2

\* the instances replica r has applied, in the order of application
RECURSIVE AppliedFrom(_, _)
AppliedFrom(r, i) ==
    IF i > Len(proc[r].history) THEN <<>>
    ELSE IF proc[r].history[i].ev = "apply"
    THEN <<proc[r].history[i].instance>> \o AppliedFrom(r, i + 1)
    ELSE AppliedFrom(r, i + 1)

Applied(r) == AppliedFrom(r, 1)

\* the dependency closure of instance I in the log of replica r
Closure(r, I) == TransDeps(proc[r], I) \cup {I}

ExecutedAt(r, S) == \A I \in S : HasStatus(proc[r], I, {"Executed"})

\* replicas r1 and r2 hold the same (cmd, seq, deps) for every instance of S
SameEntries(r1, r2, S) ==
    \A I \in S :
        /\ Present(r1, I) /\ Present(r2, I)
        /\ [EntryAt(r1, I) EXCEPT !.status = "Committed"]
             = [EntryAt(r2, I) EXCEPT !.status = "Committed"]

Restricted(s, S) == SelectSeq(s, LAMBDA I : I \in S)

\* C19: two replicas that hold the same committed entries for the closure of
\* an instance and have executed it applied its instances in the same order,
\* and hold the same value for the keys the closure writes.
C19_DeterministicExecution ==
    \A r1 \in Rs, r2 \in Rs : \A I \in Slots :
        /\ Present(r1, I)
        /\ SameEntries(r1, r2, Closure(r1, I))
        /\ ExecutedAt(r1, Closure(r1, I)) /\ ExecutedAt(r2, Closure(r1, I))
        => /\ Restricted(Applied(r1), Closure(r1, I)) = Restricted(Applied(r2), Closure(r1, I))
           /\ Closure(r1, I) = Slots =>
                  \A J \in Closure(r1, I) :
                      data_get(proc[r1].data, EntryAt(r1, J).cmd.key)
                        = data_get(proc[r2].data, EntryAt(r1, J).cmd.key)

\* Instance order: by replica id, then by instance number
InstanceLess(I, J) ==
    \/ Pos(Replicas3, I.replica) < Pos(Replicas3, J.replica)
    \/ I.replica = J.replica /\ I.instance_num < J.instance_num

\* instances I and J are members of one strongly connected component of the
\* dependency graph of replica r
SameScc(r, I, J) ==
    /\ I # J
    /\ J \in TransDeps(proc[r], I)
    /\ I \in TransDeps(proc[r], J)

\* C20: of two members of one strongly connected component the one applied
\* first has the smaller seq, or the same seq and the smaller Instance.
C20_OrderInsideScc ==
    \A r \in Rs : \A i \in 1..Len(Applied(r)) : \A j \in 1..Len(Applied(r)) :
        i < j /\ SameScc(r, Applied(r)[i], Applied(r)[j]) =>
            \/ EntryAt(r, Applied(r)[i]).seq < EntryAt(r, Applied(r)[j]).seq
            \/ /\ EntryAt(r, Applied(r)[i]).seq = EntryAt(r, Applied(r)[j]).seq
               /\ InstanceLess(Applied(r)[i], Applied(r)[j])

\* instance B is a dependency of A that lies in another strongly connected
\* component of the dependency graph of replica r
DepOutside(r, A, B) ==
    /\ Present(r, A)
    /\ B \in EntryAt(r, A).deps
    /\ B # A
    /\ Present(r, B)
    /\ A \notin TransDeps(proc[r], B)

\* C21: an instance is applied only after every dependency of it that lies in
\* another strongly connected component.
C21_DependenciesFirst ==
    \A r \in Rs : \A i \in 1..Len(Applied(r)) : \A B \in Slots :
        DepOutside(r, Applied(r)[i], B) =>
            \E j \in 1..(i - 1) : Applied(r)[j] = B

\* a replica has applied an instance and a dependency of it in another component
C21_Witness ==
    \E r \in Rs : \E i \in 1..Len(Applied(r)) : \E B \in Slots :
        /\ DepOutside(r, Applied(r)[i], B)
        /\ \E j \in 1..(i - 1) : Applied(r)[j] = B

\* the step is the receipt of a Get of client c by client_request_handler
GetRequested(c) == \E k \in KeysOf(c) : ClientRequest(Handler, c, "Get", k)

\* the step appends to replica r's own log a PreAccepted entry holding a
\* command with operation op and emits the PreAccept of that instance
Allocated(r, op) ==
    LET k == Len(proc[r].cmds[r])
    IN  /\ Len(proc'[r].cmds[r]) = k + 1
        /\ proc'[r].cmds[r][k + 1] # None
        /\ proc'[r].cmds[r][k + 1][1].status = "PreAccepted"
        /\ proc'[r].cmds[r][k + 1][1].cmd.op = op
        /\ \E env \in net' :
               /\ env.from = r
               /\ env.msg.type = "PreAccept"
               /\ env.msg.instance = Instance(r, k)
               /\ env.msg.cmd.op = op

\* C22: the step in which a replica receives a Get allocates a PreAccepted
\* instance in the replica's own log and emits its PreAccept, as for a Set.
C22_ReadsAreInstances ==
    [][ \A c \in Clients : GetRequested(c) => Allocated(ServerOf(c), "Get") ]_vars

\* the step admits a request at replica r as command leader
Admits(r) == Len(proc'[r].app_meta) = Len(proc[r].app_meta) + 1

\* the instance given to the request that the step admits at replica r: the
\* one of the PreAccept it emits
Assigned(r, I) ==
    \E o \in DOMAIN sent' :
        /\ Count(o) = 0
        /\ o.by = r
        /\ o.msg.type = "PreAccept"
        /\ o.msg.instance = I
        /\ lookup(proc'[r], I) = Some(CmdEntry(o.msg.cmd, o.msg.seq, o.msg.deps, "PreAccepted"))

\* C23: the k-th request a replica admits is assigned instance (self, k) and
\* stored at index k of the replica's own log; an instance of the own log is
\* never given to another request and keeps its command.
C23_InstanceAllocation ==
    [][ \A r \in Rs :
            /\ \A I \in Own(r) :
                   /\ lookup(proc'[r], I) # None
                   /\ lookup(proc'[r], I)[1].cmd = EntryAt(r, I).cmd
            /\ IF Admits(r)
               THEN /\ Len(proc[r].cmds[r]) = Len(proc[r].app_meta)
                    /\ Len(proc'[r].cmds[r]) = Len(proc[r].cmds[r]) + 1
                    /\ Assigned(r, Instance(r, Len(proc[r].app_meta)))
               ELSE Len(proc'[r].cmds[r]) = Len(proc[r].cmds[r]) ]_vars

\* a replica has admitted two requests
C23_Witness ==
    \E r \in Rs :
        /\ Len(proc[r].app_meta) = 2
        /\ Len(proc[r].cmds[r]) = 2
        /\ EntryAt(r, Instance(r, 0)).cmd # EntryAt(r, Instance(r, 1)).cmd

\* C24: cmds_insert fills an empty slot and replaces an entry with the same
\* cmd; on a slot holding another cmd it keeps the stored entry, and panics
\* exactly in debug builds.
C24_SlotConflict ==
    \A r \in Rs : \A I \in InsertSlots : \A e \in InsertEntries :
        ~proc[r].panicked =>
            IF Present(r, I) /\ EntryAt(r, I).cmd # e.cmd
            THEN /\ lookup(cmds_insert(proc[r], I, e), I) = lookup(proc[r], I)
                 /\ cmds_insert(proc[r], I, e).panicked = proc[r].debug_assertions
            ELSE /\ lookup(cmds_insert(proc[r], I, e), I) = Some(e)
                 /\ ~cmds_insert(proc[r], I, e).panicked

\* a debug build has refused an entry for a slot that holds another cmd: the
\* replica panicked and the slot still holds an entry
C24_Witness ==
    \E r \in Rs : \E I \in InsertSlots :
        /\ proc[r].debug_assertions
        /\ proc[r].panicked
        /\ Present(r, I)

\* the size of the ensemble of replica r
N(r) == Len(proc[r].replica_list)

\* C25 (as stated): majority + fast_quorum > N for the values returned by
\* get_majority and fast_quorum, and 2 * (majority + 1) > N.
C25_QuorumIntersection ==
    \A r \in Rs :
        /\ get_majority(proc[r]) + fast_quorum(proc[r]) > N(r)
        /\ 2 * (get_majority(proc[r]) + 1) > N(r)

\* C25 (amended): with the leader counted in both quorums, a majority quorum
\* and a fast quorum share a replica, and so do two majority quorums.
C25_QuorumIntersectionWithLeader ==
    \A r \in Rs :
        /\ (get_majority(proc[r]) + 1) + (fast_quorum(proc[r]) + 1) > N(r)
        /\ 2 * (get_majority(proc[r]) + 1) > N(r)

\* a leader of an ensemble in which majority + fast_quorum <= N has committed
\* an instance with these quorums
C25_Witness ==
    \E r \in Rs :
        /\ get_majority(proc[r]) + fast_quorum(proc[r]) <= N(r)
        /\ \E I \in Own(r) : EntryAt(r, I).status = "Committed"

\* C26: get_majority is max(1, floor(N/2)) and fast_quorum is max(1, N-2),
\* so fast_quorum >= majority >= 1 (N=1: 1,1; N=3: 1,1; N=5: 2,3; N=7: 3,5).
C26_QuorumSizes ==
    \A r \in Rs :
        /\ get_majority(proc[r]) = Max(1, N(r) \div 2)
        /\ fast_quorum(proc[r]) = Max(1, N(r) - 2)
        /\ fast_quorum(proc[r]) >= get_majority(proc[r])
        /\ get_majority(proc[r]) >= 1
        /\ N(r) \in {1, 3, 5, 7} =>
               <<N(r), get_majority(proc[r]), fast_quorum(proc[r])>>
                   \in {<<1, 1, 1>>, <<3, 1, 1>>, <<5, 2, 3>>, <<7, 3, 5>>}

\* a leader of an ensemble of 5 has asked its peers: majority 2, fast quorum 3
C26_Witness ==
    \E r \in Rs :
        /\ N(r) = 5
        /\ get_majority(proc[r]) = 2 /\ fast_quorum(proc[r]) = 3
        /\ Own(r) # {}

Replies == {"PreAcceptOk", "AcceptOk"}

\* C27: a step that takes a PreAcceptOk or AcceptOk from the network changes
\* no replica other than the leader of its instance; when it was handled by
\* such a replica nothing is emitted either.
C27_MisaddressedReplies ==
    [][ \A env \in net \ net' :
            env.msg.type \in Replies =>
                /\ \A r \in Rs \ {env.msg.instance.replica} : proc'[r] = proc[r]
                /\ delivered' = delivered => net' = net \ {env} /\ sent' = sent ]_vars

\* a follower has answered the PreAccept of an instance and its reply was
\* taken from the network without being handled by the leader
C27_Witness ==
    \E r \in Rs : \E I \in Slots :
        /\ I.replica # r
        /\ Present(r, I)
        /\ EntryAt(r, I).status = "PreAccepted"
        /\ \A env \in net \cup delivered :
               ~(env.from = r /\ env.msg.type = "PreAcceptOk" /\ env.msg.instance = I)

\* replica r holds instance I decided, and it is a Set
CommittedSet(r, I) == CommittedAt(r, I) /\ EntryAt(r, I).cmd.op = "Set"

\* C28: of two committed instances holding Sets on one key, the committed
\* deps of at least one contains the other.
C28_InterferingCommitsOrdered ==
    \A r1 \in Rs, r2 \in Rs : \A A \in Slots, B \in Slots :
        /\ A # B
        /\ CommittedSet(r1, A) /\ CommittedSet(r2, B)
        /\ conflicts_with(EntryAt(r1, A).cmd, EntryAt(r2, B).cmd)
        => B \in EntryAt(r1, A).deps \/ A \in EntryAt(r2, B).deps

\* ------------------------------------------------------- replies seen twice

\* the substrate may deliver a reply to a command leader again
DuplicateReply ==
    \E env \in net : env.msg.type \in Replies /\ Redeliver(Handler, env)

NextReplies ==
    \/ Counted(Request)
    \/ Counted(PreAccept)
    \/ Counted(PreAcceptOk)
    \/ Counted(Accept)
    \/ Counted(AcceptOk)
    \/ Counted(Commit)
    \/ Counted(DuplicateReply)

\* five replicas, handlers of handlers.rs, at most MaxDups replies delivered
\* twice
SpecReplies == Init5 /\ [][NextReplies]_vars

\* the peers whose reply of the given type for instance I replica r has handled
PeersOf(r, I, type) ==
    { env.from : env \in { e \in delivered :
                             e.to = r /\ e.msg.type = type /\ e.msg.instance = I } }

\* C29: a command leader holds an instance of its own at Committed only when
\* it has handled PreAcceptOk replies for it from at least fast_quorum
\* different peers or AcceptOk replies from at least majority different
\* peers; a reply handled twice counts as one peer.
C29_DistinctPeers ==
    \A r \in Rs : \A I \in Own(r) :
        CommittedAt(r, I) =>
            \/ Cardinality(PeersOf(r, I, "PreAcceptOk")) >= fast_quorum(proc[r])
            \/ Cardinality(PeersOf(r, I, "AcceptOk")) >= get_majority(proc[r])

\* the step emits message m from replica r
EmittedNow(r, m) ==
    LET o == [by |-> r, msg |-> m]
    IN  o \in DOMAIN sent' /\ sent'[o] = Count(o) + 1

\* the step handles the AcceptOk env at the leader of its instance and takes
\* the AcceptOk counter of the instance to majority
ReachesMajority(env) ==
    LET r   == env.to
        idx == env.msg.instance.instance_num + 1
    IN  /\ env.msg.type = "AcceptOk"
        /\ env.msg.instance.replica = r
        /\ Present(r, env.msg.instance)
        /\ idx <= Len(proc[r].acc_quorum_ctr)
        /\ proc'[r].acc_quorum_ctr[idx] = proc[r].acc_quorum_ctr[idx] + 1
        /\ proc'[r].acc_quorum_ctr[idx] = get_majority(proc[r])

\* C30: the step in which the AcceptOk counter of instance I reaches majority
\* on the leader sets I to Committed, emits Commit(cmd, seq, deps, I) and, when
\* the command is a Set, emits the ClientResponse to the client that issued it.
C30_SlowPathCommit ==
    [][ \A env \in net \ net' :
            ReachesMajority(env) =>
                LET r == env.to
                    I == env.msg.instance
                    e == lookup(proc'[r], I)[1]
                IN  /\ e.status = "Committed"
                    /\ EmittedNow(r, CommitMsg(e.cmd, e.seq, e.deps, I))
                    /\ e.cmd.op = "Set" => EmittedNow(r, SetResponse(r, I)) ]_vars

\* C39: on every replica the deps of the entry stored for an instance never
\* contain the instance itself.
C39_NoSelfDependency ==
    \A r \in Rs : \A I \in Slots : Present(r, I) => I \notin EntryAt(r, I).deps

\* ------------------------------------------- get_interfs on drawn logs
MaxLogSteps == 3

\* the slots and entries stored in the log of r0: a Set and a Get on key "a",
\* a Set on key "b", two seqs, every status an entry keeps in the log
LogSlots == { Instance(r, i) : r \in {"r1", "r2"}, i \in 0..MaxSlot }

LogEntries ==
    { CmdEntry(cmd, seq, {}, status) :
        cmd \in { CmdSet("a", ReqId("c1", 1)), CmdGet("a"), CmdSet("b", ReqId("c2", 1)) },
        seq \in 1..2, status \in {"PreAccepted", "Committed", "Executed"} }

\* the candidate commands handed to get_interfs
Candidates == { CmdSet("a", ReqId("c1", 2)), CmdGet("a") }

InitLog == InitWith(Replicas3, FALSE, [c \in Clients |-> 0])

\* an entry is stored in the log of r0
Store ==
    \E instance \in LogSlots : \E cmd_entry \in LogEntries :
        /\ steps < MaxLogSteps
        /\ proc' = [proc EXCEPT !["r0"] = cmds_insert(proc["r0"], instance, cmd_entry)]
        /\ steps' = steps + 1
        /\ UNCHANGED <<net, sent, delivered, quota, issued, ndup>>

\* r0 handles the PreAccept of a candidate: pre_accept_handler stores it with
\* the deps and seq of get_interfs
Interfere ==
    \E instance \in LogSlots : \E cmd \in Candidates :
        /\ steps < MaxLogSteps
        /\ Step("r0", pre_accept_handler(proc["r0"], PreAcceptMsg(cmd, 1, {}, instance)),
                instance.replica, {})
        /\ steps' = steps + 1
        /\ UNCHANGED <<delivered, quota, issued, ndup>>

NextLog == Store \/ Interfere

\* the log of r0 after at most MaxLogSteps entries stored or pre-accepted
SpecLog == InitLog /\ [][NextLog]_vars

\* ------------------------------------ execute_cmd on logs that hold reads
MaxReadSteps == 4

\* the instances of the drawn log: a read led by r0, a read led by r1 and a
\* write led by r2, all on key "a"
TheWrite == Instance("r2", 0)

\* every replica holds the three instances Committed, the reads with the
\* drawn deps, and the client of the request it received
WithReads(p, deps) ==
    [p EXCEPT !.cmds = [r \in DOMAIN p.cmds |->
                 IF r = "r2"
                 THEN <<Some(CmdEntry(CmdSet("a", ReqId("c2", 1)), 1, {}, "Committed"))>>
                 ELSE <<Some(CmdEntry(CmdGet("a"), IF deps[r] = {} THEN 1 ELSE 2, deps[r],
                                      "Committed"))>>],
              !.app_meta = <<[client_id |-> ClientOf(p.replica_name),
                              msg_id |-> ReqId(ClientOf(p.replica_name), 1)]>>,
              !.quorum_ctr = <<0>>,
              !.acc_quorum_ctr = <<0>>]

InitReads ==
    \E deps \in [{"r0", "r1"} -> SUBSET {TheWrite}] :
        /\ proc = [r \in { Replicas3[i] : i \in 1..Len(Replicas3) } |->
                     WithReads(NewProcessor(Replicas3, r, TRUE), deps)]
        /\ net = {}
        /\ sent = [o \in {} |-> 0]
        /\ delivered = {}
        /\ quota = [c \in Clients |-> 0]
        /\ issued = [c \in Clients |-> 0]
        /\ ndup = 0
        /\ steps = 0

\* replica r runs execute_cmd from a root whose deps are ready; the messages
\* it returns are handed to the router
ExecuteRoot ==
    \E r \in DOMAIN proc : \E root \in AllSlots(proc[r]) :
        \E ord \in { DefaultOrder(proc[r]), ReverseOrder(proc[r]) } :
            /\ steps < MaxReadSteps
            /\ deps_all_ready(proc[r], root)
            /\ Step(r, execute_cmd(proc[r], root, ord), r, {})
            /\ steps' = steps + 1
            /\ UNCHANGED <<delivered, quota, issued, ndup>>

NextReads == ExecuteRoot

\* three replicas with one drawn log, every sequence of at most MaxReadSteps
\* runs of execute_cmd
SpecReads == InitReads /\ [][NextReads]_vars

\* --------------------------------------------- tarjan_scc on drawn graphs
\* the instances a drawn dependency may name: the three writes and a slot
\* that no log holds
Targets == Writers \cup {Instance("r0", 1)}

\* every replica holds one Committed write per leader with the drawn deps:
\* chains, cycles, self-loops and edges to the empty slot
WithGraph(p, deps) ==
    [p EXCEPT !.cmds = [r \in DOMAIN p.cmds |->
        <<Some(CmdEntry(CmdSet("a", ReqId(ClientOf(r), 1)),
                        1 + Cardinality(deps[Instance(r, 0)]), deps[Instance(r, 0)],
                        "Committed"))>>]]

InitGraph ==
    \E deps \in [Writers -> SUBSET Targets] :
        /\ proc = [r \in { Replicas3[i] : i \in 1..Len(Replicas3) } |->
                     WithGraph(NewProcessor(Replicas3, r, TRUE), deps)]
        /\ net = {}
        /\ sent = [o \in {} |-> 0]
        /\ delivered = {}
        /\ quota = [c \in Clients |-> 0]
        /\ issued = [c \in Clients |-> 0]
        /\ ndup = 0
        /\ steps = 0

\* replica r0 runs execute_cmd (build_dep_graph, tarjan_scc, topo_sort_scc)
\* from a root that is not yet executed
ExecuteGraph ==
    \E root \in AllSlots(proc["r0"]) :
        \E ord \in { DefaultOrder(proc["r0"]), ReverseOrder(proc["r0"]) } :
            /\ HasStatus(proc["r0"], root, {"Committed"})
            /\ proc' = [proc EXCEPT !["r0"] = execute_cmd(proc["r0"], root, ord).p]
            /\ UNCHANGED <<net, sent, delivered, quota, issued, ndup, steps>>

NextGraph == ExecuteGraph

\* every graph on three instances, every sequence of runs of execute_cmd on r0
SpecGraph == InitGraph /\ [][NextGraph]_vars

\* ------------------------------------------------ a chain of dependencies
MaxChainSteps == 17

\* the substrate holds back the PreAccept and Accept broadcasts addressed to
\* the reader's replica, and those of the reader's replica to r2: r0 learns
\* of the writes by their Commits and r2 of the read by its Commit
HeldBack(env) ==
    /\ env.msg.type \in {"PreAccept", "Accept"}
    /\ env.to = "r0" \/ (env.from = "r0" /\ env.to = "r2")

ChainDeliver(type) == \E env \in net : ~HeldBack(env) /\ ProcDeliver(env, type)

ChainCounted(A) == steps < MaxChainSteps /\ A /\ steps' = steps + 1

NextChain ==
    \/ ChainCounted(TurnRequest)
    \/ ChainCounted(ChainDeliver("PreAccept"))
    \/ ChainCounted(ChainDeliver("PreAcceptOk"))
    \/ ChainCounted(ChainDeliver("Accept"))
    \/ ChainCounted(ChainDeliver("AcceptOk"))
    \/ ChainCounted(ChainDeliver("Commit"))

\* SpecThree with these broadcasts delayed beyond the run, every run of at
\* most MaxChainSteps handler runs
SpecChain == InitThree /\ [][NextChain]_vars

\* ------------------------------------------------------- deferred reads
\* the log of env.to once the Commit env is stored
Stored(env) == process_insert(proc[env.to], env.msg, "Committed")

\* the pending reads of env.to that the Commit env of a Set completes: the
\* write is in the deps of the read, and the deps of the write and of the
\* read are all at Committed or Executed
Resolved(env) ==
    IF env.msg.type = "Commit" /\ env.msg.cmd.op = "Set"
    THEN { g \in proc[env.to].pending_reads :
             /\ lookup(Stored(env), g) # None
             /\ env.msg.instance \in lookup(Stored(env), g)[1].deps
             /\ deps_all_ready(Stored(env), env.msg.instance)
             /\ deps_all_ready(Stored(env), g) }
    ELSE {}

\* the events the step added to the history of replica r
NewEvents(r) == SubSeq(proc'[r].history, Len(proc[r].history) + 1, Len(proc'[r].history))

\* the step emits the answer to the read g of replica r
AnswersNow(r, g) ==
    \E o \in DOMAIN sent' :
        /\ o.by = r
        /\ o.msg.type = "ClientResponse"
        /\ o.msg.cmd_result.op = "Get"
        /\ o.msg.msg_id = proc[r].app_meta[g.instance_num + 1].msg_id
        /\ sent'[o] = Count(o) + 1

ClosureCommitted(r, g) ==
    \A I \in TransDeps(proc[r], g) : HasStatus(proc[r], I, {"Committed", "Executed"})

\* C32: a read is not left in the pending reads of its leader once every
\* instance of its transitive dependency closure is Committed there: the step
\* that commits the last of them, direct dependency or not, executes and
\* answers the read.
C32_DeferredReadsAnswered ==
    \A r \in Rs : \A g \in proc[r].pending_reads :
        ~proc[r].panicked /\ Present(r, g) => ~ClosureCommitted(r, g)

\* the step handles the reply env at the leader of its instance, which holds
\* the instance at Executed
LateAfterExecution(env) ==
    /\ env.msg.type \in Replies
    /\ env.msg.instance.replica = env.to
    /\ HasStatus(proc[env.to], env.msg.instance, {"Executed"})

\* C33: the step that handles a PreAcceptOk or an AcceptOk at the leader of an
\* instance it holds at Executed emits nothing, leaves the entry of the
\* instance unchanged and does not end the replica.
C33_LateReplyAfterExecution ==
    [][ \A env \in net \ net' :
            LateAfterExecution(env) =>
                /\ lookup(proc'[env.to], env.msg.instance) = lookup(proc[env.to], env.msg.instance)
                /\ ~proc'[env.to].panicked
                /\ net' = net \ {env}
                /\ sent' = sent ]_vars

\* ------------------------------------------------ interference analysis
\* the filled, non-Executed slots of the log of p whose command is on the key
\* of cmd, but for the pairs of two Gets
Interfering(p, cmd) ==
    { I \in AllSlots(p) :
        /\ lookup(p, I) # None
        /\ lookup(p, I)[1].status # "Executed"
        /\ lookup(p, I)[1].cmd.key = cmd.key
        /\ ~(cmd.op = "Get" /\ lookup(p, I)[1].cmd.op = "Get") }

\* C34: for every candidate command, get_interfs returns as deps exactly the
\* filled, non-Executed slots whose command is on the same key, leaving out
\* only the pairs of two Gets, and as seq 1 + the largest seq of those entries.
C34_InterferenceAnalysis ==
    \A cmd \in Candidates :
        /\ get_interfs(proc["r0"], cmd).deps = Interfering(proc["r0"], cmd)
        /\ get_interfs(proc["r0"], cmd).seq =
               1 + SetMax({ lookup(proc["r0"], I)[1].seq : I \in Interfering(proc["r0"], cmd) })

\* the log of p without the entries on another key than k
OnKey(p, k) ==
    [p EXCEPT !.cmds = [r \in DOMAIN p.cmds |->
        [i \in 1..Len(p.cmds[r]) |->
            IF p.cmds[r][i] # None /\ p.cmds[r][i][1].cmd.key # k THEN None ELSE p.cmds[r][i]]]]

\* C35: the seq returned by get_interfs is greater than the seq of every entry
\* whose instance is in the returned deps and is 1 when the deps are empty;
\* the deps hold no entry on another key, and the entries on another key do
\* not change the result.
C35_SequenceDominance ==
    \A cmd \in Candidates :
        LET p == proc["r0"]
            i == get_interfs(p, cmd)
        IN  /\ \A I \in i.deps : i.seq > lookup(p, I)[1].seq
            /\ i.deps = {} => i.seq = 1
            /\ \A I \in i.deps : lookup(p, I)[1].cmd.key = cmd.key
            /\ i = get_interfs(OnKey(p, cmd.key), cmd)

\* the log holds a write on key "a" that get_interfs returns for a candidate
\* and a write on key "b" with a larger seq
C35_Witness ==
    \E cmd \in Candidates : \E I \in get_interfs(proc["r0"], cmd).deps :
        \E J \in AllSlots(proc["r0"]) :
            /\ lookup(proc["r0"], J) # None
            /\ lookup(proc["r0"], J)[1].cmd.key = "b"
            /\ lookup(proc["r0"], J)[1].status # "Executed"
            /\ lookup(proc["r0"], J)[1].seq > lookup(proc["r0"], I)[1].seq

\* ---------------------------------------------------- reads of other leaders
\* replica r has run execute_cmd from the root I
RanFrom(r, I) ==
    \E i \in EventsAt(r, "run") : proc[r].history[i].root = I

\* C36: a replica that has run execute_cmd from a Get led by another replica
\* has emitted no ClientResponse for it and holds it at Executed; the
\* ClientResponse of a Get is emitted by its command leader only.
C36_ReadsOnNonLeaders ==
    \A r \in Rs :
        /\ \A i \in EventsAt(r, "respond") : proc[r].history[i].instance.replica = r
        /\ \A o \in DOMAIN sent :
              o.msg.type = "ClientResponse" /\ o.msg.cmd_result.op = "Get" =>
                  o.msg.client_id = ClientOf(o.by)
        /\ \A I \in Slots :
              /\ I.replica # r
              /\ Present(r, I)
              /\ EntryAt(r, I).cmd.op = "Get"
              /\ RanFrom(r, I)
              => HasStatus(proc[r], I, {"Executed"})

\* ------------------------------------------------------------- deferral
\* some pending read of replica r has W in its deps
ReadWaitsFor(r, W) ==
    \E g \in proc[r].pending_reads : Present(r, g) /\ W \in EntryAt(r, g).deps

\* W is in the log of replica r and every direct dependency of W is in the
\* log at Committed or Executed
DepsReady(r, W) ==
    /\ Present(r, W)
    /\ \A I \in EntryAt(r, W).deps : HasStatus(proc[r], I, {"Committed", "Executed"})

\* C37: handle_pending_reads(W) returns the replica unchanged and nothing to
\* send when no pending read has W in its deps or when a direct dependency of
\* W is missing or below Committed; when a read waits for W and the deps of W
\* are ready it runs the execution engine.
C37_DeferralIsNoOp ==
    \A r \in Rs : \A W \in Slots :
        \A ord \in { DefaultOrder(proc[r]), ReverseOrder(proc[r]) } :
            IF ReadWaitsFor(r, W) /\ DepsReady(r, W)
            THEN LET res == handle_pending_reads(proc[r], W, ord)
                 IN  res.p.panicked \/ Len(res.p.history) > Len(proc[r].history)
            ELSE handle_pending_reads(proc[r], W, ord) = Ret(proc[r], <<>>)

\* a pending read waits for a write that is Committed in the log while a
\* direct dependency of the write is not in the log
C37_Witness ==
    \E r \in Rs : \E W \in Slots :
        /\ ReadWaitsFor(r, W)
        /\ HasStatus(proc[r], W, {"Committed"})
        /\ ~DepsReady(r, W)

\* ------------------------------------------------------------ slow path
\* every Commit that leader r broadcast for I carries the cmd, seq and deps
\* of every Accept it broadcast for I
CommitIsAccepted(r, I) ==
    \A a \in Broadcasts(r, "Accept", I) : \A c \in Broadcasts(r, "Commit", I) :
        /\ c.msg.cmd = a.msg.cmd
        /\ c.msg.seq = a.msg.seq
        /\ c.msg.deps = a.msg.deps

\* leader r has broadcast Accept for its instance I and holds I undecided
AcceptPending(r, I) ==
    /\ Broadcasts(r, "Accept", I) # {}
    /\ HasStatus(proc[r], I, {"PreAccepted", "Accepted"})

\* C38: the Commit a leader broadcasts for an instance carries the cmd, seq
\* and deps of the Accept it broadcast for it, and a PreAcceptOk handled
\* between the Accept and the commit leaves the leader's entry unchanged.
C38_AcceptedValueCommitted ==
    [][ /\ \A r \in Rs : \A I \in Own(r) : CommitIsAccepted(r, I)
        /\ \A env \in net \ net' :
              env.msg.type = "PreAcceptOk" /\ AcceptPending(env.to, env.msg.instance) =>
                  lookup(proc'[env.to], env.msg.instance) = lookup(proc[env.to], env.msg.instance)
      ]_vars

\* ------------------------------------------------------ SCC decomposition
\* each of x and y is reachable from the other along the deps edges of p
MutuallyReachable(p, x, y) ==
    x = y \/ (y \in TransDeps(p, x) /\ x \in TransDeps(p, y))

\* sccs is a partition of nodes into the classes of mutual reachability
Decomposes(p, sccs, nodes) ==
    /\ UNION { Elems(sccs[i]) : i \in 1..Len(sccs) } = nodes
    /\ \A i \in 1..Len(sccs) : Len(sccs[i]) = Cardinality(Elems(sccs[i])) /\ sccs[i] # <<>>
    /\ \A i, j \in 1..Len(sccs) : i # j => Elems(sccs[i]) \cap Elems(sccs[j]) = {}
    /\ \A x \in nodes : \A y \in nodes :
          (\E i \in 1..Len(sccs) : x \in Elems(sccs[i]) /\ y \in Elems(sccs[i]))
              <=> MutuallyReachable(p, x, y)

\* C40: for the dependency graph built from any root, tarjan_scc returns a
\* partition of the visited instances in which two instances share a
\* component exactly when each is reachable from the other along deps edges.
C40_SccDecomposition ==
    \A root \in AllSlots(proc["r0"]) :
        \A ord \in { DefaultOrder(proc["r0"]), ReverseOrder(proc["r0"]) } :
            Decomposes(proc["r0"],
                       tarjan_scc(build_dep_graph(proc["r0"], root, ord), ord),
                       Reach(proc["r0"], {root}, {}))

\* r0 has run the engine on a log that holds a cycle of two instances, a
\* third instance they depend on, and a self-loop on that one
C40_Witness ==
    /\ proc["r0"].history # <<>>
    /\ lookup(proc["r0"], Instance("r0", 0))[1].deps = {Instance("r1", 0)}
    /\ lookup(proc["r0"], Instance("r1", 0))[1].deps = {Instance("r0", 0), Instance("r2", 0)}
    /\ lookup(proc["r0"], Instance("r2", 0))[1].deps = {Instance("r2", 0)}

============================================================================
